---- MODULE Spec2Model ----
(***************************************************************************)
(* Search-and-synthesis pipeline of the Perplexity MVP backend:            *)
(* SearchOrchestrator.execute_search, GroqService.analyze_query,           *)
(* TavilyService.search_multiple and ContentSynthesizer.                   *)
(*                                                                         *)
(* Python strings that the code inspects (queries, search terms, urls,     *)
(* generated text, error messages) are sequences of one-character strings. *)
(* Floating point scores are integers in hundredths (0.15 is 15).          *)
(* DocumentChunkingService.chunk_document is modelled next to it.          *)
(* An Optional value is <<>> for None and <<v>> for a present value v.     *)
(***************************************************************************)
EXTENDS Integers, Sequences, FiniteSets, TLC

VARIABLES
    pc,                 \* position of execute_search
    query,              \* request.query
    llmReply,           \* what the intent model call produced (<<>> before it returns)
    analysis,           \* local `analysis` of execute_search (Optional)
    search_terms,       \* search terms handed to search_multiple
    taskState,          \* per search term: "running", "done", "cancelling" or "cancelled"
    taskOutcome,        \* per search term: what the HTTP exchange produced (Optional)
    taskResult,         \* per search term: what gather holds for the task (Optional)
    completionOrder,    \* indexes of the search tasks in the order they finished
    ranked_results,     \* return value of search_multiple (Optional)
    web_results,        \* local `web_results` of execute_search (Optional)
    processed_sources,  \* sources prepared by the synthesizer
    genOutcome,         \* what the generation call produced (Optional)
    genCalls,           \* number of generation calls issued
    synthesized,        \* return value of synthesize_response (Optional)
    response,           \* SearchResponse returned by execute_search (Optional)
    stageLog,           \* the stages entered and left, in order
    calls,              \* the external calls issued so far, in order
    cpc,                \* position of chunk_document
    doc_text,           \* argument `text` of chunk_document
    pages,              \* local `pages` of chunk_document
    page_num,           \* loop variable `page_num` of chunk_document
    paragraphs,         \* _chunk_page_text: the paragraphs not yet visited
    current_chunk,      \* _chunk_page_text: local `current_chunk`
    current_tokens,     \* _chunk_page_text: local `current_tokens`
    chunks,             \* _chunk_page_text: local `chunks`
    all_chunks,         \* local `all_chunks` of chunk_document
    document_id,        \* argument `document_id` of chunk_document
    running_forced,     \* history: the running chunk took a paragraph by the forced append
    forced_chunks       \* history: chunk_index of the emitted chunks that did

\* state of DocumentChunkingService.chunk_document
chunkVars == <<cpc, doc_text, document_id, pages, page_num, paragraphs, current_chunk,
               current_tokens, chunks, all_chunks, running_forced, forced_chunks>>

\* state of SearchOrchestrator.execute_search
pipelineVars == <<pc, query, llmReply, analysis, search_terms, taskState, taskOutcome,
                  taskResult, completionOrder, ranked_results, web_results, processed_sources,
                  genOutcome, genCalls, synthesized, response, stageLog, calls>>

vars == <<pipelineVars, chunkVars>>

-----------------------------------------------------------------------------
(* Bounds of the model *)

\* longest result list one search response carries
MaxPayloadLen == 2

-----------------------------------------------------------------------------
(* Generic helpers *)

None == <<>>
Some(v) == <<v>>
IsNone(o) == Len(o) = 0
IsSome(o) == Len(o) = 1
Get(o) == o[1]

Min(a, b) == IF a <= b THEN a ELSE b

Least(S) == CHOOSE x \in S : \A y \in S : x <= y

\* s[:n]
Take(s, n) == SubSeq(s, 1, Min(n, Len(s)))

RECURSIVE SumLen(_)
SumLen(segs) == IF segs = <<>> THEN 0 ELSE Head(segs).n + SumLen(Tail(segs))

-----------------------------------------------------------------------------
(* Python str operations *)

\* A character is named by a string: a printable ASCII character by itself, tab, newline,
\* form feed and carriage return by their escapes, and any other character (the
\* backquote, which no string can hold, among them) by "U+" and its code point in
\* hexadecimal, of four digits or more. A string literal of this language cannot hold
\* most of the characters beyond ASCII (Cyrillic, Arabic-Indic and CJK among them), so
\* all of them are written the one way. The naming is one to one: "U+00C0" is chr(192),
\* capital A with grave, and Lower of it is <<"U+00E0">>, chr(224), small a with grave;
\* "U+03A3" is capital sigma and "U+03C3" small sigma. The tables
\* of this section are those of the interpreter the repository runs on (CPython 3.11,
\* Unicode 14.0.0); a pair <<a, b>> stands for the code points a to b.
HexDigits == <<"0", "1", "2", "3", "4", "5", "6", "7", "8", "9", "A", "B", "C", "D", "E", "F">>

RECURSIVE Hex(_, _)
Hex(n, width) ==
    IF width <= 0 /\ n = 0 THEN ""
    ELSE Hex(n \div 16, width - 1) \o HexDigits[(n % 16) + 1]

Ascii ==
  <<"U+0000", "U+0001", "U+0002", "U+0003", "U+0004", "U+0005", "U+0006", "U+0007",
    "U+0008", "\t", "\n", "U+000B", "\f", "\r", "U+000E", "U+000F", "U+0010", "U+0011",
    "U+0012", "U+0013", "U+0014", "U+0015", "U+0016", "U+0017", "U+0018", "U+0019",
    "U+001A", "U+001B", "U+001C", "U+001D", "U+001E", "U+001F", " ", "!", "\"", "#", "$",
    "%", "&", "'", "(", ")", "*", "+", ",", "-", ".", "/", "0", "1", "2", "3", "4", "5",
    "6", "7", "8", "9", ":", ";", "<", "=", ">", "?", "@", "A", "B", "C", "D", "E", "F",
    "G", "H", "I", "J", "K", "L", "M", "N", "O", "P", "Q", "R", "S",
    "T", "U", "V", "W",
    "X", "Y", "Z", "[", "\\", "]", "^", "_", "U+0060", "a", "b", "c", "d", "e", "f", "g",
    "h", "i", "j", "k", "l", "m", "n", "o", "p", "q", "r", "s", "t", "u", "v", "w", "x",
    "y", "z", "{", "|", "}", "~", "U+007F">>

\* chr(n)
Chr(n) == IF n < Len(Ascii) THEN Ascii[n + 1] ELSE "U+" \o Hex(n, 4)

CharsIn(ranges) == UNION {{Chr(n) : n \in r[1]..r[2]} : r \in ranges}

\* the characters `\d` matches in a str pattern: the decimal digits of every script
Digits ==
    CharsIn({
     <<48, 57>>, <<1632, 1641>>, <<1776, 1785>>, <<1984, 1993>>, <<2406, 2415>>,
     <<2534, 2543>>, <<2662, 2671>>, <<2790, 2799>>, <<2918, 2927>>, <<3046, 3055>>,
     <<3174, 3183>>, <<3302, 3311>>, <<3430, 3439>>, <<3558, 3567>>, <<3664, 3673>>,
     <<3792, 3801>>, <<3872, 3881>>, <<4160, 4169>>, <<4240, 4249>>, <<6112, 6121>>,
     <<6160, 6169>>, <<6470, 6479>>, <<6608, 6617>>, <<6784, 6793>>, <<6800, 6809>>,
     <<6992, 7001>>, <<7088, 7097>>, <<7232, 7241>>, <<7248, 7257>>, <<42528, 42537>>,
     <<43216, 43225>>, <<43264, 43273>>, <<43472, 43481>>, <<43504, 43513>>,
     <<43600, 43609>>, <<44016, 44025>>, <<65296, 65305>>, <<66720, 66729>>,
     <<68912, 68921>>, <<69734, 69743>>, <<69872, 69881>>, <<69942, 69951>>,
     <<70096, 70105>>, <<70384, 70393>>, <<70736, 70745>>, <<70864, 70873>>,
     <<71248, 71257>>, <<71360, 71369>>, <<71472, 71481>>, <<71904, 71913>>,
     <<72016, 72025>>, <<72784, 72793>>, <<73040, 73049>>, <<73120, 73129>>,
     <<92768, 92777>>, <<92864, 92873>>, <<93008, 93017>>, <<120782, 120831>>,
     <<123200, 123209>>, <<123632, 123641>>, <<125264, 125273>>, <<130032, 130041>>})

\* the characters str.isspace() holds for, which are those str.strip() and str.split()
\* take for blanks and `\s` matches
Whitespace ==
    CharsIn({
     <<9, 13>>, <<28, 32>>, <<133, 133>>, <<160, 160>>, <<5760, 5760>>, <<8192, 8202>>,
     <<8232, 8233>>, <<8239, 8239>>, <<8287, 8287>>, <<12288, 12288>>})

\* the characters str.lower() changes into one other character: <<first, last, step,
\* delta>> stands for the code points first, first + step, ..., last, each of which
\* becomes the code point delta higher
LowerRuns ==
    {
     <<65, 90, 1, 32>>, <<192, 214, 1, 32>>, <<216, 222, 1, 32>>, <<256, 302, 2, 1>>,
     <<306, 310, 2, 1>>, <<313, 327, 2, 1>>, <<330, 374, 2, 1>>, <<376, 376, 1, -121>>,
     <<377, 381, 2, 1>>, <<385, 385, 1, 210>>, <<386, 388, 2, 1>>, <<390, 390, 1, 206>>,
     <<391, 391, 1, 1>>, <<393, 394, 1, 205>>, <<395, 395, 1, 1>>, <<398, 398, 1, 79>>,
     <<399, 399, 1, 202>>, <<400, 400, 1, 203>>, <<401, 401, 1, 1>>, <<403, 403, 1, 205>>,
     <<404, 404, 1, 207>>, <<406, 406, 1, 211>>, <<407, 407, 1, 209>>, <<408, 408, 1, 1>>,
     <<412, 412, 1, 211>>, <<413, 413, 1, 213>>, <<415, 415, 1, 214>>, <<416, 420, 2, 1>>,
     <<422, 422, 1, 218>>, <<423, 423, 1, 1>>, <<425, 425, 1, 218>>, <<428, 428, 1, 1>>,
     <<430, 430, 1, 218>>, <<431, 431, 1, 1>>, <<433, 434, 1, 217>>, <<435, 437, 2, 1>>,
     <<439, 439, 1, 219>>, <<440, 440, 1, 1>>, <<444, 444, 1, 1>>, <<452, 452, 1, 2>>,
     <<453, 453, 1, 1>>, <<455, 455, 1, 2>>, <<456, 456, 1, 1>>, <<458, 458, 1, 2>>,
     <<459, 475, 2, 1>>, <<478, 494, 2, 1>>, <<497, 497, 1, 2>>, <<498, 500, 2, 1>>,
     <<502, 502, 1, -97>>, <<503, 503, 1, -56>>, <<504, 542, 2, 1>>, <<544, 544, 1, -130>>,
     <<546, 562, 2, 1>>, <<570, 570, 1, 10795>>, <<571, 571, 1, 1>>, <<573, 573, 1, -163>>,
     <<574, 574, 1, 10792>>, <<577, 577, 1, 1>>, <<579, 579, 1, -195>>, <<580, 580, 1, 69>>,
     <<581, 581, 1, 71>>, <<582, 590, 2, 1>>, <<880, 882, 2, 1>>, <<886, 886, 1, 1>>,
     <<895, 895, 1, 116>>, <<902, 902, 1, 38>>, <<904, 906, 1, 37>>, <<908, 908, 1, 64>>,
     <<910, 911, 1, 63>>, <<913, 929, 1, 32>>, <<931, 939, 1, 32>>, <<975, 975, 1, 8>>,
     <<984, 1006, 2, 1>>, <<1012, 1012, 1, -60>>, <<1015, 1015, 1, 1>>,
     <<1017, 1017, 1, -7>>, <<1018, 1018, 1, 1>>, <<1021, 1023, 1, -130>>,
     <<1024, 1039, 1, 80>>, <<1040, 1071, 1, 32>>, <<1120, 1152, 2, 1>>,
     <<1162, 1214, 2, 1>>, <<1216, 1216, 1, 15>>, <<1217, 1229, 2, 1>>,
     <<1232, 1326, 2, 1>>, <<1329, 1366, 1, 48>>, <<4256, 4293, 1, 7264>>,
     <<4295, 4295, 1, 7264>>, <<4301, 4301, 1, 7264>>, <<5024, 5103, 1, 38864>>,
     <<5104, 5109, 1, 8>>, <<7312, 7354, 1, -3008>>, <<7357, 7359, 1, -3008>>,
     <<7680, 7828, 2, 1>>, <<7838, 7838, 1, -7615>>, <<7840, 7934, 2, 1>>,
     <<7944, 7951, 1, -8>>, <<7960, 7965, 1, -8>>, <<7976, 7983, 1, -8>>,
     <<7992, 7999, 1, -8>>, <<8008, 8013, 1, -8>>, <<8025, 8031, 2, -8>>,
     <<8040, 8047, 1, -8>>, <<8072, 8079, 1, -8>>, <<8088, 8095, 1, -8>>,
     <<8104, 8111, 1, -8>>, <<8120, 8121, 1, -8>>, <<8122, 8123, 1, -74>>,
     <<8124, 8124, 1, -9>>, <<8136, 8139, 1, -86>>, <<8140, 8140, 1, -9>>,
     <<8152, 8153, 1, -8>>, <<8154, 8155, 1, -100>>, <<8168, 8169, 1, -8>>,
     <<8170, 8171, 1, -112>>, <<8172, 8172, 1, -7>>, <<8184, 8185, 1, -128>>,
     <<8186, 8187, 1, -126>>, <<8188, 8188, 1, -9>>, <<8486, 8486, 1, -7517>>,
     <<8490, 8490, 1, -8383>>, <<8491, 8491, 1, -8262>>, <<8498, 8498, 1, 28>>,
     <<8544, 8559, 1, 16>>, <<8579, 8579, 1, 1>>, <<9398, 9423, 1, 26>>,
     <<11264, 11311, 1, 48>>, <<11360, 11360, 1, 1>>, <<11362, 11362, 1, -10743>>,
     <<11363, 11363, 1, -3814>>, <<11364, 11364, 1, -10727>>, <<11367, 11371, 2, 1>>,
     <<11373, 11373, 1, -10780>>, <<11374, 11374, 1, -10749>>, <<11375, 11375, 1, -10783>>,
     <<11376, 11376, 1, -10782>>, <<11378, 11378, 1, 1>>, <<11381, 11381, 1, 1>>,
     <<11390, 11391, 1, -10815>>, <<11392, 11490, 2, 1>>, <<11499, 11501, 2, 1>>,
     <<11506, 11506, 1, 1>>, <<42560, 42604, 2, 1>>, <<42624, 42650, 2, 1>>,
     <<42786, 42798, 2, 1>>, <<42802, 42862, 2, 1>>, <<42873, 42875, 2, 1>>,
     <<42877, 42877, 1, -35332>>, <<42878, 42886, 2, 1>>, <<42891, 42891, 1, 1>>,
     <<42893, 42893, 1, -42280>>, <<42896, 42898, 2, 1>>, <<42902, 42920, 2, 1>>,
     <<42922, 42922, 1, -42308>>, <<42923, 42923, 1, -42319>>, <<42924, 42924, 1, -42315>>,
     <<42925, 42925, 1, -42305>>, <<42926, 42926, 1, -42308>>, <<42928, 42928, 1, -42258>>,
     <<42929, 42929, 1, -42282>>, <<42930, 42930, 1, -42261>>, <<42931, 42931, 1, 928>>,
     <<42932, 42946, 2, 1>>, <<42948, 42948, 1, -48>>, <<42949, 42949, 1, -42307>>,
     <<42950, 42950, 1, -35384>>, <<42951, 42953, 2, 1>>, <<42960, 42960, 1, 1>>,
     <<42966, 42968, 2, 1>>, <<42997, 42997, 1, 1>>, <<65313, 65338, 1, 32>>,
     <<66560, 66599, 1, 40>>, <<66736, 66771, 1, 40>>, <<66928, 66938, 1, 39>>,
     <<66940, 66954, 1, 39>>, <<66956, 66962, 1, 39>>, <<66964, 66965, 1, 39>>,
     <<68736, 68786, 1, 64>>, <<71840, 71871, 1, 32>>, <<93760, 93791, 1, 32>>,
     <<125184, 125217, 1, 34>>}

LowerPairs ==
    UNION {{<<Chr(r[1] + k * r[3]), Chr(r[1] + k * r[3] + r[4])>> :
               k \in 0..((r[2] - r[1]) \div r[3])} : r \in LowerRuns}

HasLower == {p[1] : p \in LowerPairs}

\* the one character str.lower() changes into two: capital I with dot above becomes
\* i and the combining dot above
LowerSpecial == <<Chr(304), <<"i", "U+0307">>>>

\* c.lower() for a single character c
LowerChar(c) ==
    IF c = LowerSpecial[1] THEN LowerSpecial[2]
    ELSE IF c \in HasLower THEN <<(CHOOSE p \in LowerPairs : p[1] = c)[2]>>
    ELSE <<c>>

\* the cased characters (letters with a case, apart from the case-ignorable ones) and
\* the case-ignorable characters (marks, modifiers, apostrophes, periods and the like),
\* which decide the form of a lowered capital sigma
Cased ==
    CharsIn({
     <<65, 90>>, <<97, 122>>, <<170, 170>>, <<181, 181>>, <<186, 186>>, <<192, 214>>,
     <<216, 246>>, <<248, 442>>, <<444, 447>>, <<452, 659>>, <<661, 687>>, <<880, 883>>,
     <<886, 887>>, <<891, 893>>, <<895, 895>>, <<902, 902>>, <<904, 906>>, <<908, 908>>,
     <<910, 929>>, <<931, 1013>>, <<1015, 1153>>, <<1162, 1327>>, <<1329, 1366>>,
     <<1376, 1416>>, <<4256, 4293>>, <<4295, 4295>>, <<4301, 4301>>, <<4304, 4346>>,
     <<4349, 4351>>, <<5024, 5109>>, <<5112, 5117>>, <<7296, 7304>>, <<7312, 7354>>,
     <<7357, 7359>>, <<7424, 7467>>, <<7531, 7543>>, <<7545, 7578>>, <<7680, 7957>>,
     <<7960, 7965>>, <<7968, 8005>>, <<8008, 8013>>, <<8016, 8023>>, <<8025, 8025>>,
     <<8027, 8027>>, <<8029, 8029>>, <<8031, 8061>>, <<8064, 8116>>, <<8118, 8124>>,
     <<8126, 8126>>, <<8130, 8132>>, <<8134, 8140>>, <<8144, 8147>>, <<8150, 8155>>,
     <<8160, 8172>>, <<8178, 8180>>, <<8182, 8188>>, <<8450, 8450>>, <<8455, 8455>>,
     <<8458, 8467>>, <<8469, 8469>>, <<8473, 8477>>, <<8484, 8484>>, <<8486, 8486>>,
     <<8488, 8488>>, <<8490, 8493>>, <<8495, 8500>>, <<8505, 8505>>, <<8508, 8511>>,
     <<8517, 8521>>, <<8526, 8526>>, <<8544, 8575>>, <<8579, 8580>>, <<9398, 9449>>,
     <<11264, 11387>>, <<11390, 11492>>, <<11499, 11502>>, <<11506, 11507>>,
     <<11520, 11557>>, <<11559, 11559>>, <<11565, 11565>>, <<42560, 42605>>,
     <<42624, 42651>>, <<42786, 42863>>, <<42865, 42887>>, <<42891, 42894>>,
     <<42896, 42954>>, <<42960, 42961>>, <<42963, 42963>>, <<42965, 42969>>,
     <<42997, 42998>>, <<43002, 43002>>, <<43824, 43866>>, <<43872, 43880>>,
     <<43888, 43967>>, <<64256, 64262>>, <<64275, 64279>>, <<65313, 65338>>,
     <<65345, 65370>>, <<66560, 66639>>, <<66736, 66771>>, <<66776, 66811>>,
     <<66928, 66938>>, <<66940, 66954>>, <<66956, 66962>>, <<66964, 66965>>,
     <<66967, 66977>>, <<66979, 66993>>, <<66995, 67001>>, <<67003, 67004>>,
     <<68736, 68786>>, <<68800, 68850>>, <<71840, 71903>>, <<93760, 93823>>,
     <<119808, 119892>>, <<119894, 119964>>, <<119966, 119967>>, <<119970, 119970>>,
     <<119973, 119974>>, <<119977, 119980>>, <<119982, 119993>>, <<119995, 119995>>,
     <<119997, 120003>>, <<120005, 120069>>, <<120071, 120074>>, <<120077, 120084>>,
     <<120086, 120092>>, <<120094, 120121>>, <<120123, 120126>>, <<120128, 120132>>,
     <<120134, 120134>>, <<120138, 120144>>, <<120146, 120485>>, <<120488, 120512>>,
     <<120514, 120538>>, <<120540, 120570>>, <<120572, 120596>>, <<120598, 120628>>,
     <<120630, 120654>>, <<120656, 120686>>, <<120688, 120712>>, <<120714, 120744>>,
     <<120746, 120770>>, <<120772, 120779>>, <<122624, 122633>>, <<122635, 122654>>,
     <<125184, 125251>>, <<127280, 127305>>, <<127312, 127337>>, <<127344, 127369>>})

CaseIgnorable ==
    CharsIn({
     <<39, 39>>, <<46, 46>>, <<58, 58>>, <<94, 94>>, <<96, 96>>, <<168, 168>>, <<173, 173>>,
     <<175, 175>>, <<180, 180>>, <<183, 184>>, <<688, 879>>, <<884, 885>>, <<890, 890>>,
     <<900, 901>>, <<903, 903>>, <<1155, 1161>>, <<1369, 1369>>, <<1375, 1375>>,
     <<1425, 1469>>, <<1471, 1471>>, <<1473, 1474>>, <<1476, 1477>>, <<1479, 1479>>,
     <<1524, 1524>>, <<1536, 1541>>, <<1552, 1562>>, <<1564, 1564>>, <<1600, 1600>>,
     <<1611, 1631>>, <<1648, 1648>>, <<1750, 1757>>, <<1759, 1768>>, <<1770, 1773>>,
     <<1807, 1807>>, <<1809, 1809>>, <<1840, 1866>>, <<1958, 1968>>, <<2027, 2037>>,
     <<2042, 2042>>, <<2045, 2045>>, <<2070, 2093>>, <<2137, 2139>>, <<2184, 2184>>,
     <<2192, 2193>>, <<2200, 2207>>, <<2249, 2306>>, <<2362, 2362>>, <<2364, 2364>>,
     <<2369, 2376>>, <<2381, 2381>>, <<2385, 2391>>, <<2402, 2403>>, <<2417, 2417>>,
     <<2433, 2433>>, <<2492, 2492>>, <<2497, 2500>>, <<2509, 2509>>, <<2530, 2531>>,
     <<2558, 2558>>, <<2561, 2562>>, <<2620, 2620>>, <<2625, 2626>>, <<2631, 2632>>,
     <<2635, 2637>>, <<2641, 2641>>, <<2672, 2673>>, <<2677, 2677>>, <<2689, 2690>>,
     <<2748, 2748>>, <<2753, 2757>>, <<2759, 2760>>, <<2765, 2765>>, <<2786, 2787>>,
     <<2810, 2815>>, <<2817, 2817>>, <<2876, 2876>>, <<2879, 2879>>, <<2881, 2884>>,
     <<2893, 2893>>, <<2901, 2902>>, <<2914, 2915>>, <<2946, 2946>>, <<3008, 3008>>,
     <<3021, 3021>>, <<3072, 3072>>, <<3076, 3076>>, <<3132, 3132>>, <<3134, 3136>>,
     <<3142, 3144>>, <<3146, 3149>>, <<3157, 3158>>, <<3170, 3171>>, <<3201, 3201>>,
     <<3260, 3260>>, <<3263, 3263>>, <<3270, 3270>>, <<3276, 3277>>, <<3298, 3299>>,
     <<3328, 3329>>, <<3387, 3388>>, <<3393, 3396>>, <<3405, 3405>>, <<3426, 3427>>,
     <<3457, 3457>>, <<3530, 3530>>, <<3538, 3540>>, <<3542, 3542>>, <<3633, 3633>>,
     <<3636, 3642>>, <<3654, 3662>>, <<3761, 3761>>, <<3764, 3772>>, <<3782, 3782>>,
     <<3784, 3789>>, <<3864, 3865>>, <<3893, 3893>>, <<3895, 3895>>, <<3897, 3897>>,
     <<3953, 3966>>, <<3968, 3972>>, <<3974, 3975>>, <<3981, 3991>>, <<3993, 4028>>,
     <<4038, 4038>>, <<4141, 4144>>, <<4146, 4151>>, <<4153, 4154>>, <<4157, 4158>>,
     <<4184, 4185>>, <<4190, 4192>>, <<4209, 4212>>, <<4226, 4226>>, <<4229, 4230>>,
     <<4237, 4237>>, <<4253, 4253>>, <<4348, 4348>>, <<4957, 4959>>, <<5906, 5908>>,
     <<5938, 5939>>, <<5970, 5971>>, <<6002, 6003>>, <<6068, 6069>>, <<6071, 6077>>,
     <<6086, 6086>>, <<6089, 6099>>, <<6103, 6103>>, <<6109, 6109>>, <<6155, 6159>>,
     <<6211, 6211>>, <<6277, 6278>>, <<6313, 6313>>, <<6432, 6434>>, <<6439, 6440>>,
     <<6450, 6450>>, <<6457, 6459>>, <<6679, 6680>>, <<6683, 6683>>, <<6742, 6742>>,
     <<6744, 6750>>, <<6752, 6752>>, <<6754, 6754>>, <<6757, 6764>>, <<6771, 6780>>,
     <<6783, 6783>>, <<6823, 6823>>, <<6832, 6862>>, <<6912, 6915>>, <<6964, 6964>>,
     <<6966, 6970>>, <<6972, 6972>>, <<6978, 6978>>, <<7019, 7027>>, <<7040, 7041>>,
     <<7074, 7077>>, <<7080, 7081>>, <<7083, 7085>>, <<7142, 7142>>, <<7144, 7145>>,
     <<7149, 7149>>, <<7151, 7153>>, <<7212, 7219>>, <<7222, 7223>>, <<7288, 7293>>,
     <<7376, 7378>>, <<7380, 7392>>, <<7394, 7400>>, <<7405, 7405>>, <<7412, 7412>>,
     <<7416, 7417>>, <<7468, 7530>>, <<7544, 7544>>, <<7579, 7679>>, <<8125, 8125>>,
     <<8127, 8129>>, <<8141, 8143>>, <<8157, 8159>>, <<8173, 8175>>, <<8189, 8190>>,
     <<8203, 8207>>, <<8216, 8217>>, <<8228, 8228>>, <<8231, 8231>>, <<8234, 8238>>,
     <<8288, 8292>>, <<8294, 8303>>, <<8305, 8305>>, <<8319, 8319>>, <<8336, 8348>>,
     <<8400, 8432>>, <<11388, 11389>>, <<11503, 11505>>, <<11631, 11631>>, <<11647, 11647>>,
     <<11744, 11775>>, <<11823, 11823>>, <<12293, 12293>>, <<12330, 12333>>,
     <<12337, 12341>>, <<12347, 12347>>, <<12441, 12446>>, <<12540, 12542>>,
     <<40981, 40981>>, <<42232, 42237>>, <<42508, 42508>>, <<42607, 42610>>,
     <<42612, 42621>>, <<42623, 42623>>, <<42652, 42655>>, <<42736, 42737>>,
     <<42752, 42785>>, <<42864, 42864>>, <<42888, 42890>>, <<42994, 42996>>,
     <<43000, 43001>>, <<43010, 43010>>, <<43014, 43014>>, <<43019, 43019>>,
     <<43045, 43046>>, <<43052, 43052>>, <<43204, 43205>>, <<43232, 43249>>,
     <<43263, 43263>>, <<43302, 43309>>, <<43335, 43345>>, <<43392, 43394>>,
     <<43443, 43443>>, <<43446, 43449>>, <<43452, 43453>>, <<43471, 43471>>,
     <<43493, 43494>>, <<43561, 43566>>, <<43569, 43570>>, <<43573, 43574>>,
     <<43587, 43587>>, <<43596, 43596>>, <<43632, 43632>>, <<43644, 43644>>,
     <<43696, 43696>>, <<43698, 43700>>, <<43703, 43704>>, <<43710, 43711>>,
     <<43713, 43713>>, <<43741, 43741>>, <<43756, 43757>>, <<43763, 43764>>,
     <<43766, 43766>>, <<43867, 43871>>, <<43881, 43883>>, <<44005, 44005>>,
     <<44008, 44008>>, <<44013, 44013>>, <<64286, 64286>>, <<64434, 64450>>,
     <<65024, 65039>>, <<65043, 65043>>, <<65056, 65071>>, <<65106, 65106>>,
     <<65109, 65109>>, <<65279, 65279>>, <<65287, 65287>>, <<65294, 65294>>,
     <<65306, 65306>>, <<65342, 65342>>, <<65344, 65344>>, <<65392, 65392>>,
     <<65438, 65439>>, <<65507, 65507>>, <<65529, 65531>>, <<66045, 66045>>,
     <<66272, 66272>>, <<66422, 66426>>, <<67456, 67461>>, <<67463, 67504>>,
     <<67506, 67514>>, <<68097, 68099>>, <<68101, 68102>>, <<68108, 68111>>,
     <<68152, 68154>>, <<68159, 68159>>, <<68325, 68326>>, <<68900, 68903>>,
     <<69291, 69292>>, <<69446, 69456>>, <<69506, 69509>>, <<69633, 69633>>,
     <<69688, 69702>>, <<69744, 69744>>, <<69747, 69748>>, <<69759, 69761>>,
     <<69811, 69814>>, <<69817, 69818>>, <<69821, 69821>>, <<69826, 69826>>,
     <<69837, 69837>>, <<69888, 69890>>, <<69927, 69931>>, <<69933, 69940>>,
     <<70003, 70003>>, <<70016, 70017>>, <<70070, 70078>>, <<70089, 70092>>,
     <<70095, 70095>>, <<70191, 70193>>, <<70196, 70196>>, <<70198, 70199>>,
     <<70206, 70206>>, <<70367, 70367>>, <<70371, 70378>>, <<70400, 70401>>,
     <<70459, 70460>>, <<70464, 70464>>, <<70502, 70508>>, <<70512, 70516>>,
     <<70712, 70719>>, <<70722, 70724>>, <<70726, 70726>>, <<70750, 70750>>,
     <<70835, 70840>>, <<70842, 70842>>, <<70847, 70848>>, <<70850, 70851>>,
     <<71090, 71093>>, <<71100, 71101>>, <<71103, 71104>>, <<71132, 71133>>,
     <<71219, 71226>>, <<71229, 71229>>, <<71231, 71232>>, <<71339, 71339>>,
     <<71341, 71341>>, <<71344, 71349>>, <<71351, 71351>>, <<71453, 71455>>,
     <<71458, 71461>>, <<71463, 71467>>, <<71727, 71735>>, <<71737, 71738>>,
     <<71995, 71996>>, <<71998, 71998>>, <<72003, 72003>>, <<72148, 72151>>,
     <<72154, 72155>>, <<72160, 72160>>, <<72193, 72202>>, <<72243, 72248>>,
     <<72251, 72254>>, <<72263, 72263>>, <<72273, 72278>>, <<72281, 72283>>,
     <<72330, 72342>>, <<72344, 72345>>, <<72752, 72758>>, <<72760, 72765>>,
     <<72767, 72767>>, <<72850, 72871>>, <<72874, 72880>>, <<72882, 72883>>,
     <<72885, 72886>>, <<73009, 73014>>, <<73018, 73018>>, <<73020, 73021>>,
     <<73023, 73029>>, <<73031, 73031>>, <<73104, 73105>>, <<73109, 73109>>,
     <<73111, 73111>>, <<73459, 73460>>, <<78896, 78904>>, <<92912, 92916>>,
     <<92976, 92982>>, <<92992, 92995>>, <<94031, 94031>>, <<94095, 94111>>,
     <<94176, 94177>>, <<94179, 94180>>, <<110576, 110579>>, <<110581, 110587>>,
     <<110589, 110590>>, <<113821, 113822>>, <<113824, 113827>>, <<118528, 118573>>,
     <<118576, 118598>>, <<119143, 119145>>, <<119155, 119170>>, <<119173, 119179>>,
     <<119210, 119213>>, <<119362, 119364>>, <<121344, 121398>>, <<121403, 121452>>,
     <<121461, 121461>>, <<121476, 121476>>, <<121499, 121503>>, <<121505, 121519>>,
     <<122880, 122886>>, <<122888, 122904>>, <<122907, 122913>>, <<122915, 122916>>,
     <<122918, 122922>>, <<123184, 123197>>, <<123566, 123566>>, <<123628, 123631>>,
     <<125136, 125142>>, <<125252, 125259>>, <<127995, 127999>>, <<917505, 917505>>,
     <<917536, 917631>>, <<917760, 917999>>})

CapitalSigma == Chr(931)
FinalSigma == Chr(962)

\* a capital sigma is lowered to the final form when a cased character stands before
\* it and none after it, case-ignorable characters being skipped on both sides
final_sigma(s, i) ==
    LET before == {j \in 1..(i - 1) : s[j] \notin CaseIgnorable}
        after == {j \in (i + 1)..Len(s) : s[j] \notin CaseIgnorable}
    IN  /\ before # {}
        /\ s[CHOOSE j \in before : \A h \in before : h <= j] \in Cased
        /\ \/ after = {}
           \/ s[CHOOSE j \in after : \A h \in after : j <= h] \notin Cased

\* str.lower(): the characters are lowered one by one, and the result can be longer
\* than s
RECURSIVE LowerFrom(_, _)
LowerFrom(s, i) ==
    IF i > Len(s) THEN <<>>
    ELSE (IF s[i] = CapitalSigma /\ final_sigma(s, i) THEN <<FinalSigma>>
          ELSE LowerChar(s[i])) \o LowerFrom(s, i + 1)

Lower(s) == LowerFrom(s, 1)

\* pat in s
MatchesAt(s, pat, i) ==
    /\ i + Len(pat) - 1 <= Len(s)
    /\ \A k \in 1..Len(pat) : s[i + k - 1] = pat[k]

Contains(s, pat) == \E i \in 1..(Len(s) + 1) : MatchesAt(s, pat, i)

\* str.strip()
Strip(s) ==
    LET kept == {i \in 1..Len(s) : s[i] \notin Whitespace} IN
    IF kept = {} THEN <<>>
    ELSE SubSeq(s, CHOOSE i \in kept : \A j \in kept : i <= j,
                   CHOOSE i \in kept : \A j \in kept : i >= j)

\* len(s.split()): the number of maximal runs of non-whitespace characters
WordCount(s) ==
    Cardinality({i \in 1..Len(s) :
                    s[i] \notin Whitespace /\ (i = Len(s) \/ s[i + 1] \in Whitespace)})

\* str(n) for n >= 0
DigitChars == <<"0", "1", "2", "3", "4", "5", "6", "7", "8", "9">>
RECURSIVE ToStr(_)
ToStr(n) == IF n < 10 THEN <<DigitChars[n + 1]>> ELSE ToStr(n \div 10) \o <<DigitChars[(n % 10) + 1]>>

-----------------------------------------------------------------------------
(* Requests *)

\* SearchRequest.query (2..2000 characters)
Queries == {<<"w", "h", "a", "t", " ", "i", "s", " ", "A", "I", "?">>}

-----------------------------------------------------------------------------
(* GroqService.analyze_query *)

FallbackComplexity == 5
KeyEntityMaxLen == 200
MinComplexity == 1
MaxComplexity == 10

RequiredFields ==
    {"query_type", "search_intent", "key_entities", "suggested_searches", "complexity_score"}

\* A JSON object the intent model may answer with: `has` is the set of its keys.
AnalysisData(has, suggested, complexity) ==
    [has |-> has, query_type |-> "how_to", search_intent |-> <<"i", "n", "t", "e", "n", "t">>,
            key_entities |-> <<>>,
     suggested_searches |-> suggested, complexity_score |-> complexity,
     requires_real_time |-> TRUE]

NoData == AnalysisData({}, <<>>, 0)

\* What the chat-completion call can produce for query q.
IntentReplies(q) ==
    {[kind |-> "api_error", data |-> NoData],
     [kind |-> "non_json", data |-> NoData]}
    \cup
    {[kind |-> "json_object", data |-> d] : d \in
        {AnalysisData(RequiredFields, <<<<"W", "h", "a", "t", " ", "I", "s", " ", "A", "I", "?">>,
                <<"A", "I", " ", "u", "s", "e">>>>, 2),
         AnalysisData(RequiredFields \cup {"requires_real_time"},
                      <<<<"M", "L">>, <<"A", "I", " ", "u", "s", "e">>, <<"A", "I", " ", "r", "i",
                              "s", "k">>>>, 8),
         AnalysisData(RequiredFields, <<>>, 3),
         AnalysisData(RequiredFields, <<<<"M", "L">>, <<"A", "I", " ", "u", "s", "e">>, <<"W", "H",
                 "A", "T", " ", "I", "S", " ", "A", "I", "?">>, <<"A", "I", " ", "r", "i", "s",
                 "k">>>>, 3),
         AnalysisData(RequiredFields, <<<<"M", "L">>, <<"A", "I", " ", "u", "s", "e">>, <<"A", "I",
                 " ", "r", "i", "s", "k">>, <<"w", "h", "a", "t", " ", "i", "s", " ", "A", "I",
                 "?">>>>, 6),
         AnalysisData(RequiredFields, <<<<"M", "L">>, <<"A", "I", " ", "u", "s", "e">>>>, 3),
         AnalysisData(RequiredFields, <<<<"M", "L">>, <<"A", "I", " ", "u", "s", "e">>>>, 0),
         AnalysisData(RequiredFields, <<<<"M", "L">>, <<"A", "I", " ", "u", "s", "e">>>>, 11),
         AnalysisData(RequiredFields \ {"suggested_searches"}, <<>>, 4)}}

\* complexity_score: int = Field(..., ge=1, le=10)
\* variant: the upper limit left out
ComplexityInRangeNoUpper(c) == c >= MinComplexity
ComplexityInRange(c) == c >= MinComplexity /\ c <= MaxComplexity

\* QueryAnalysis(**analysis_data) validates
SchemaValid(d) ==
    /\ RequiredFields \subseteq d.has
    /\ ComplexityInRange(d.complexity_score)

QueryAnalysis(d) ==
    [query_type |-> d.query_type, search_intent |-> d.search_intent,
     key_entities |-> d.key_entities, suggested_searches |-> d.suggested_searches,
     complexity_score |-> d.complexity_score,
     requires_real_time |-> IF "requires_real_time" \in d.has THEN d.requires_real_time ELSE FALSE]

create_fall_back_analysis(q) ==
    [query_type |-> "factual",
     search_intent |-> <<"U", "s", "e", "r", " ", "w", "a", "n", "t", "s", " ", "i", "n", "f", "o",
             "r", "m", "a", "t", "i", "o", "n", " ", "a", "b", "o", "u", "t", ":", " ">> \o q,
     key_entities |-> <<Take(q, KeyEntityMaxLen)>>,
     suggested_searches |-> <<q, q \o <<" ", "e", "x", "p", "l", "a", "n", "a", "t", "i", "o",
             "n">>, q \o <<" ", "d", "e", "f", "i", "n", "i", "t", "i", "o", "n">>>>,
     complexity_score |-> FallbackComplexity,
     requires_real_time |-> FALSE]

analyze_query(q, reply) ==
    IF reply.kind = "json_object" /\ SchemaValid(reply.data)
    THEN QueryAnalysis(reply.data)
    ELSE create_fall_back_analysis(q)

-----------------------------------------------------------------------------
(* SearchOrchestrator._execute_web_search: the search terms *)

max_results_per_search == 2
SuggestedKept == 2

\* variant: a fourth search for the complex queries
get_max_searches_four(complexity_score) ==
    IF complexity_score <= 3 THEN 2
    ELSE IF complexity_score <= 6 THEN 3
    ELSE 4

get_max_searches(complexity_score) ==
    IF complexity_score <= 3 THEN 2
    ELSE IF complexity_score <= 6 THEN 3
    ELSE 3

\* variant: the query is compared with the suggestions as written
derive_search_terms_case_sensitive(a, original_query) ==
    LET suggested == a.suggested_searches
        written == {suggested[i] : i \in 1..Len(suggested)}
        terms == IF original_query \notin written
                 THEN <<original_query>> \o Take(suggested, SuggestedKept)
                 ELSE suggested
    IN  Take(terms, get_max_searches(a.complexity_score))

derive_search_terms(a, original_query) ==
    LET suggested == a.suggested_searches
        lowered == {Lower(suggested[i]) : i \in 1..Len(suggested)}
        terms == IF Lower(original_query) \notin lowered
                 THEN <<original_query>> \o Take(suggested, SuggestedKept)
                 ELSE suggested
    IN  Take(terms, get_max_searches(a.complexity_score))

-----------------------------------------------------------------------------
(* TavilyService: what the search API can answer *)

\* A result's content is a run-length description of its text:
\*   "text"   n characters holding no whitespace, no markup and no boilerplate keyword
\*   "ws"     a run of n whitespace characters
\*   "tag"    a markup tag <...> of n characters, without whitespace inside
\*   "boiler" one of the keywords Cookie / Privacy Policy / Terms of Service (n characters)
\*   "ad"     the word Advertisement in any letter case (n characters)
Seg(k, n) == [k |-> k, n |-> n]

\* A result dict of the search API. content_null: the JSON carries "content": null.
\* calculated_score is absent until _rank_results attaches it.
Result(title, url, content, content_null, score) ==
    [title |-> title, url |-> url, content |-> content, content_null |-> content_null,
     score |-> score, calculated_score |-> None]

Catalogue ==
    <<Result("A", <<"a", ".", "i", "o", "/", "1">>, <<Seg("text", 600)>>, FALSE, 15),
      Result("C", <<"a", ".", "i", "o", "/", "1">>,
             <<Seg("ws", 3), Seg("tag", 20), Seg("text", 4), Seg("boiler", 6), Seg("text", 40)>>,
             FALSE, 90),
      Result("B", <<"B", "B", "C", ".", "c", "o", "m", "/", "b">>,
             <<Seg("tag", 10), Seg("text", 150), Seg("ws", 2), Seg("text", 138)>>, FALSE, 50),
      Result("D", <<>>, <<Seg("text", 300)>>, FALSE, 90),
      Result("G", <<"g", ".", "i", "o", "/", "7">>, <<Seg("text", 210)>>, FALSE, 90),
      Result("F", <<"f", ".", "i", "o", "/", "6">>, <<>>, TRUE, 50)>>

\* A result of low relevance with a usable content, met only when the synthesizer is
\* exercised on its own
LowRanked == Result("H", <<"h", ".", "i", "o", "/", "8">>, <<Seg("text", 50)>>, FALSE, 20)

\* a result dict without the key "score"
WithoutScore(result) == [f \in DOMAIN result \ {"score"} |-> result[f]]

\* Results met when the ranking is exercised on its own: contents of 200, 201, 500 and
\* 501 characters, listed domains as host, in the path, in the query string and as the
\* end of another host name, and results without score
RankCatalogue ==
    <<Result("W", <<"h", "t", "t", "p", "s", ":", "/", "/", "e", "n", ".", "W", "i", "k", "i", "p",
            "e", "d", "i", "a", ".", "o", "r", "g", "/", "w", "i", "k", "i", "/", "A", "I">>,
            <<Seg("text", 500)>>, FALSE, 50),
      Result("Q", <<"h", "t", "t", "p", "s", ":", "/", "/", "e", "x", "a", "m", "p", "l", "e", ".",
              "c", "o", "m", "/", "?", "r", "e", "f", "=", "b", "b", "c", ".", "c", "o", "m">>,
              <<Seg("text", 501)>>, FALSE, 50),
      Result("N", <<"h", "t", "t", "p", "s", ":", "/", "/", "n", "o", "t", "b", "b", "c", ".", "c",
              "o", "m", "/", "a">>, <<Seg("text", 200)>>, FALSE, 50),
      Result("E", <<"h", "t", "t", "p", "s", ":", "/", "/", "w", "w", "w", ".", "e", "s", "p", "n",
              "c", "r", "i", "c", "i", "n", "f", "o", ".", "c", "o", "m", "/", "x">>, <<Seg("text",
              201)>>, FALSE, 50),
      WithoutScore(Result("K", <<"h", "t", "t", "p", "s", ":", "/", "/", "w", "w", "w", ".", "c",
              "r", "i", "c", "b", "u", "z", "z", ".", "c", "o", "m", "/", "y">>, <<>>, FALSE, 0)),
      WithoutScore(Result("P", <<"h", "t", "t", "p", "s", ":", "/", "/", "x", ".", "i", "o", "/",
              "m", "i", "t", ".", "e", "d", "u">>, <<Seg("text", 600)>>, FALSE, 0))>>

\* The result lists a response can carry: runs of the catalogue of bounded length.
Payloads ==
    {SubSeq(Catalogue, w[1], w[1] + w[2] - 1) :
        w \in {v \in (1..Len(Catalogue)) \X (0..MaxPayloadLen) :
                  v[1] + v[2] - 1 <= Len(Catalogue)}}

\* The outcomes of one HTTP exchange. body is what response.json()['results'] holds
\* (for http_status_error: the body of the error response, never read).
SearchOutcomes ==
    {[kind |-> "client_init_error", body |-> <<>>],
     [kind |-> "transport_error", body |-> <<>>],
     [kind |-> "http_status_error", body |-> <<Catalogue[3]>>],
     [kind |-> "bad_json", body |-> <<>>]}
    \cup {[kind |-> "ok", body |-> p] : p \in Payloads}

\* _single_search: raised = an exception leaves the coroutine; results = result['results'].
\* variant: raise_for_status left out
single_search_unchecked_status(outcome) ==
    IF outcome.kind = "client_init_error" THEN [raised |-> TRUE, results |-> <<>>]
    ELSE IF outcome.kind \in {"transport_error", "bad_json"}
         THEN [raised |-> FALSE, results |-> <<>>]
    ELSE [raised |-> FALSE, results |-> outcome.body]

single_search(outcome) ==
    IF outcome.kind = "client_init_error" THEN [raised |-> TRUE, results |-> <<>>]
    ELSE IF outcome.kind \in {"transport_error", "http_status_error", "bad_json"}
         THEN [raised |-> FALSE, results |-> <<>>]
    ELSE [raised |-> FALSE, results |-> outcome.body]

\* search_multiple, the loop creating the tasks: one _single_search per search term,
\* each of which posts at most one request, with the term as "query" and the number of
\* results asked for as "max_results"
\* variant: a second call for every term
search_calls_twice(terms) ==
    [i \in 1..2 * Len(terms) |->
        <<"search", terms[((i - 1) % Len(terms)) + 1], max_results_per_search>>]
search_calls(terms) ==
    [i \in 1..Len(terms) |-> <<"search", terms[i], max_results_per_search>>]

\* asyncio.gather(*tasks, return_exceptions=True): the results in task order.
\* variant: the results in completion order
gather_as_completed(results, order) == [k \in 1..Len(results) |-> Get(results[order[k]])]
gather(results, order) == [i \in 1..Len(results) |-> Get(results[i])]

\* search_multiple, lines 33-40: the result lists of the calls that did not raise.
RECURSIVE collect_all_results(_)
collect_all_results(search_results) ==
    IF search_results = <<>> THEN <<>>
    ELSE (IF Head(search_results).raised THEN <<>> ELSE Head(search_results).results)
         \o collect_all_results(Tail(search_results))

RECURSIVE DedupFrom(_, _)
DedupFrom(results, seen_urls) ==
    IF results = <<>> THEN <<>>
    ELSE LET url == Head(results).url IN
         IF url # <<>> /\ url \notin seen_urls
         THEN <<Head(results)>> \o DedupFrom(Tail(results), seen_urls \cup {url})
         ELSE DedupFrom(Tail(results), seen_urls)

\* variant: the last occurrence of a url wins
RECURSIVE DedupKeepLastFrom(_)
DedupKeepLastFrom(results) ==
    IF results = <<>> THEN <<>>
    ELSE LET url == Head(results).url
             rest == Tail(results) IN
         IF url # <<>> /\ ~\E i \in 1..Len(rest) : rest[i].url = url
         THEN <<Head(results)>> \o DedupKeepLastFrom(rest)
         ELSE DedupKeepLastFrom(rest)

deduplicated_results_keep_last(results) == DedupKeepLastFrom(results)
deduplicated_results(results) == DedupFrom(results, {})

LongContent == 500
MediumContent == 200
LongBonus == 100
MediumBonus == 50
DomainBonus == 15

reputable_domains ==
    <<<<"w", "i", "k", "i", "p", "e", "d", "i", "a", ".", "o", "r", "g">>, <<"b", "r", "i", "t",
            "a", "n", "n", "i", "c", "a", ".", "c", "o", "m">>, <<"s", "t", "a", "n", "f", "o",
            "r", "d", ".", "e", "d", "u">>, <<"o", "x", ".", "a", "c", ".", "u", "k">>, <<"m", "i",
            "t", ".", "e", "d", "u">>,
      <<"n", "a", "t", "u", "r", "e", ".", "c", "o", "m">>, <<"s", "c", "i", "e", "n", "c", "e",
              "d", "i", "r", "e", "c", "t", ".", "c", "o", "m">>, <<"s", "c", "i", "e", "n", "c",
              "e", "m", "a", "g", ".", "o", "r", "g">>, <<"s", "p", "r", "i", "n", "g", "e", "r",
              ".", "c", "o", "m">>, <<"j", "s", "t", "o", "r", ".", "o", "r", "g">>,
      <<"i", "e", "e", "e", ".", "o", "r", "g">>, <<"a", "c", "m", ".", "o", "r", "g">>, <<"a",
              "r", "x", "i", "v", ".", "o", "r", "g">>, <<"n", "a", "s", "a", ".", "g", "o", "v">>,
              <<"t", "e", "c", "h", "c", "r", "u", "n", "c", "h", ".", "c", "o", "m">>,
      <<"b", "b", "c", ".", "c", "o", "m">>, <<"n", "y", "t", "i", "m", "e", "s", ".", "c", "o",
              "m">>, <<"r", "e", "u", "t", "e", "r", "s", ".", "c", "o", "m">>, <<"t", "h", "e",
              "g", "u", "a", "r", "d", "i", "a", "n", ".", "c", "o", "m">>, <<"w", "a", "s", "h",
              "i", "n", "g", "t", "o", "n", "p", "o", "s", "t", ".", "c", "o", "m">>,
      <<"n", "i", "h", ".", "g", "o", "v">>, <<"w", "h", "o", ".", "i", "n", "t">>, <<"c", "d",
              "c", ".", "g", "o", "v">>, <<"m", "a", "y", "o", "c", "l", "i", "n", "i", "c", ".",
              "o", "r", "g">>, <<"c", "l", "e", "v", "e", "l", "a", "n", "d", "c", "l", "i", "n",
              "i", "c", ".", "o", "r", "g">>,
      <<"e", "s", "p", "n", ".", "c", "o", "m">>, <<"s", "k", "y", "s", "p", "o", "r", "t", "s",
              ".", "c", "o", "m">>, <<"s", "p", "o", "r", "t", "s", ".", "y", "a", "h", "o", "o",
              ".", "c", "o", "m">>, <<"c", "b", "s", "s", "p", "o", "r", "t", "s", ".", "c", "o",
              "m">>,
      <<"b", "l", "e", "a", "c", "h", "e", "r", "r", "e", "p", "o", "r", "t", ".", "c", "o", "m">>,
      <<"c", "r", "i", "c", "b", "u", "z", "z", ".", "c", "o", "m", "e", "s", "p", "n", "c", "r",
              "i", "c", "i", "n", "f", "o", ".", "c", "o", "m">>,
      <<"i", "c", "c", "-", "c", "r", "i", "c", "k", "e", "t", ".", "c", "o", "m">>, <<"c", "r",
              "i", "c", "b", "u", "z", "z", ".", "c", "o", "m">>, <<"w", "i", "s", "d", "e", "n",
              ".", "c", "o", "m">>, <<"s", "k", "y", "s", "p", "o", "r", "t", "s", ".", "c", "o",
              "m", "/", "c", "r", "i", "c", "k", "e", "t">>,
      <<"a", "r", "c", "h", "i", "v", "e", ".", "o", "r", "g">>, <<"l", "o", "c", ".", "g", "o",
              "v">>, <<"e", "u", "r", "o", "p", "e", "a", "n", "a", ".", "e", "u">>, <<"n", "a",
              "t", "i", "o", "n", "a", "l", "a", "r", "c", "h", "i", "v", "e", "s", ".", "g", "o",
              "v", ".", "u", "k">>,
      <<"w", "o", "r", "l", "d", "d", "i", "g", "i", "t", "a", "l", "i", "b", "r", "a", "r", "y",
              ".", "o", "r", "g">>>>

\* Results met when the source preparation is exercised on its own. The i-th has its own
\* url and a score that falls with i; its content is, once cleaned, of 10 characters
\* ("plain"), of 9 ("short"), of 2000 ("full", 2003 before the blanks are collapsed) or
\* of 2001 ("long")
SourceKinds ==
    [plain |-> <<Seg("text", 10)>>,
     short |-> <<Seg("ws", 3), Seg("text", 9), Seg("ws", 2)>>,
     full |-> <<Seg("text", 1500), Seg("ws", 4), Seg("text", 499)>>,
     long |-> <<Seg("tag", 5), Seg("text", 2001)>>]

SourceItem(i, kind) == Result(kind, <<"s", ".", "i", "o", "/">> \o ToStr(i), SourceKinds[kind],
        FALSE, 90 - 5 * i)

\* most results of a long result list
MaxListed == 10

SourceItems == {SourceItem(i, kind) : i \in 1..MaxListed, kind \in DOMAIN SourceKinds}

\* calculate_score raises TypeError on len(None)
ScoreRaises(result) == result.content_null

\* result.get('score', 0.0)
get_score(result) == IF "score" \in DOMAIN result THEN result.score ELSE 0

\* the boost for the content length
\* variant: a content of exactly 500 or 200 characters takes the higher boost
length_bonus_inclusive(content_length) ==
    IF content_length >= LongContent THEN LongBonus
    ELSE IF content_length >= MediumContent THEN MediumBonus
    ELSE 0
length_bonus(content_length) ==
    IF content_length > LongContent THEN LongBonus
    ELSE IF content_length > MediumContent THEN MediumBonus
    ELSE 0

\* the boost for a reputable domain: `any(domain in url for domain in reputable_domains)`
domain_bonus(url) ==
    IF \E d \in 1..Len(reputable_domains) : Contains(Lower(url), reputable_domains[d])
    THEN DomainBonus ELSE 0

calculate_score(result) ==
    get_score(result) + length_bonus(SumLen(result.content)) + domain_bonus(result.url)

\* sorted(results, key=calculate_score, reverse=True): the key is computed once per
\* result and the sort is stable, highest key first
\* variant: a result goes before the results of equal key
InsertByKeyTiesFirst(sorted, x) ==
    LET k == Cardinality({i \in 1..Len(sorted) : sorted[i].key > x.key})
    IN  SubSeq(sorted, 1, k) \o <<x>> \o SubSeq(sorted, k + 1, Len(sorted))

InsertByKey(sorted, x) ==
    LET k == Cardinality({i \in 1..Len(sorted) : sorted[i].key >= x.key})
    IN  SubSeq(sorted, 1, k) \o <<x>> \o SubSeq(sorted, k + 1, Len(sorted))

RECURSIVE SortedPrefix(_, _)
SortedPrefix(keyed, n) ==
    IF n = 0 THEN <<>> ELSE InsertByKey(SortedPrefix(keyed, n - 1), keyed[n])

\* calculate_score of the results the search can return, computed once
ScoreTable ==
    [r \in {Catalogue[i] : i \in 1..Len(Catalogue)} \cup {LowRanked}
            \cup {RankCatalogue[i] : i \in 1..Len(RankCatalogue)} \cup SourceItems |->
        IF ScoreRaises(r) THEN 0 ELSE calculate_score(r)]

score_key(result) == ScoreTable[[result EXCEPT !.calculated_score = None]]

sorted_by_score(results) ==
    LET keyed == [i \in 1..Len(results) |->
                    [key |-> score_key(results[i]), item |-> results[i]]]
        ordered == SortedPrefix(keyed, Len(keyed))
    IN  [i \in 1..Len(ordered) |-> ordered[i].item]

TypeErrorNoLen == <<"o", "b", "j", "e", "c", "t", " ", "o", "f", " ", "t", "y", "p", "e", " ", "'",
        "N", "o", "n", "e", "T", "y", "p", "e", "'", " ", "h", "a", "s", " ", "n", "o", " ", "l",
        "e", "n", "(", ")">>

\* _rank_results: raised when calculate_score raises for a result
rank_results(results) ==
    IF \E i \in 1..Len(results) : ScoreRaises(results[i])
    THEN [raised |-> TRUE, error |-> TypeErrorNoLen, value |-> <<>>]
    ELSE LET ranked == sorted_by_score(results) IN
         [raised |-> FALSE, error |-> <<>>,
          value |-> [i \in 1..Len(ranked) |->
                       [ranked[i] EXCEPT !.calculated_score = Some(score_key(ranked[i]))]]]

\* _rank_results, lines 180-181: `result['calculated_score'] = ...` is an assignment into
\* the dicts of the ranked list, and those are the very dicts the tasks returned. A
\* result of the gathered lists is among them when its call did not raise, its url is
\* not empty and no earlier result, in task order and then in list order, has its url
ranked_in_place(search_results) ==
    LET kept(i, j) ==
            LET url == search_results[i].results[j].url IN
            /\ ~search_results[i].raised
            /\ url # <<>>
            /\ \A h \in 1..i : \A k \in 1..Len(search_results[h].results) :
                  (h < i \/ k < j) =>
                      (search_results[h].raised \/ search_results[h].results[k].url # url)
    IN  [i \in 1..Len(search_results) |->
            [search_results[i] EXCEPT !.results =
                [j \in 1..Len(search_results[i].results) |->
                    IF kept(i, j)
                    THEN [search_results[i].results[j] EXCEPT
                            !.calculated_score =
                                Some(score_key(search_results[i].results[j]))]
                    ELSE search_results[i].results[j]]]]

\* search_multiple, from the gathered task results on
search_multiple(search_results) ==
    rank_results(deduplicated_results(collect_all_results(search_results)))

\* _convert_raw_results_to_schema: SearchResult objects
SearchResult(result) ==
    [title |-> result.title, url |-> result.url, content |-> result.content,
     score |-> get_score(result), calculated_score |-> result.calculated_score]

convert_raw_results_to_schema(raw_results) ==
    [i \in 1..Len(raw_results) |-> SearchResult(raw_results[i])]

\* WebSearchResults (the model has no field `query`: pydantic ignores the argument)
WebSearchResults(results, terms) ==
    [results |-> results, total_results |-> Len(results), search_terms_used |-> terms]

-----------------------------------------------------------------------------
(* ContentSynthesizer *)

MaxSources == 8
MinContentLen == 10
max_content_length == 2000
EllipsisLen == 3
FallbackQuality == 10

\* re.sub(r'\s+', ' ', content)
collapse_whitespace(segs) ==
    [i \in 1..Len(segs) |-> IF segs[i].k = "ws" THEN Seg("ws", 1) ELSE segs[i]]

\* re.sub(r'(Cookie|Privacy Policy|Terms of Service).*', '', content)
RECURSIVE cut_boilerplate(_)
cut_boilerplate(segs) ==
    IF segs = <<>> \/ Head(segs).k = "boiler" THEN <<>>
    ELSE <<Head(segs)>> \o cut_boilerplate(Tail(segs))

\* re.sub(r'Advertisement\s*', '', content, flags=re.IGNORECASE)
RECURSIVE remove_ads(_)
remove_ads(segs) ==
    IF segs = <<>> THEN <<>>
    ELSE IF Head(segs).k = "ad"
         THEN IF Len(segs) > 1 /\ segs[2].k = "ws"
              THEN remove_ads(Tail(Tail(segs)))
              ELSE remove_ads(Tail(segs))
    ELSE <<Head(segs)>> \o remove_ads(Tail(segs))

\* re.sub(r'<[^>]+>', '', content)
IsNotTag(seg) == seg.k # "tag"
remove_tags(segs) == SelectSeq(segs, IsNotTag)

\* content.strip()
RECURSIVE lstrip_segs(_)
lstrip_segs(segs) ==
    IF segs # <<>> /\ Head(segs).k = "ws" THEN lstrip_segs(Tail(segs)) ELSE segs

RECURSIVE rstrip_segs(_)
rstrip_segs(segs) ==
    IF segs # <<>> /\ segs[Len(segs)].k = "ws"
    THEN rstrip_segs(SubSeq(segs, 1, Len(segs) - 1)) ELSE segs

clean_content(content) ==
    rstrip_segs(lstrip_segs(remove_tags(remove_ads(cut_boilerplate(collapse_whitespace(content))))))

\* content[:n]
RECURSIVE take_chars(_, _)
take_chars(segs, n) ==
    IF segs = <<>> \/ n <= 0 THEN <<>>
    ELSE IF Head(segs).n <= n THEN <<Head(segs)>> \o take_chars(Tail(segs), n - Head(segs).n)
    ELSE <<Seg(Head(segs).k, n)>>

truncate_content(content) ==
    IF SumLen(content) > max_content_length
    THEN take_chars(content, max_content_length) \o <<Seg("text", EllipsisLen)>>
    ELSE content

\* _process_search_results: the loop over enumerate(results[:8]) from index i (0-based) on
RECURSIVE process_from(_, _)
process_from(results, i) ==
    IF i >= Len(results) THEN <<>>
    ELSE LET result == results[i + 1]
             content == clean_content(result.content) IN
         IF SumLen(content) < MinContentLen THEN process_from(results, i + 1)
         ELSE <<[id |-> i + 1, title |-> result.title, url |-> result.url,
                 content |-> truncate_content(content), score |-> result.score]>>
              \o process_from(results, i + 1)

\* variant: the loop runs over all the results
process_search_results_unlimited(results) == process_from(results, 0)
process_search_results(results) == process_from(Take(results, MaxSources), 0)

\* `if not processed_sources`
\* variant: `if processed_sources is None`, which an empty list never is
no_valid_sources_only_none(sources) == FALSE
no_valid_sources(sources) == sources = <<>>

\* Characters standing for the non-ASCII citation decorations
Dagger == Chr(8224)
CjkOpen == Chr(12304)
CjkClose == Chr(12305)

\* What the generation call can produce. content: message.content of the first choice.
ApiErrorText == <<"C", "o", "n", "n", "e", "c", "t", "i", "o", "n", " ", "e", "r", "r", "o", "r",
        ".">>
NoStripText == <<"'", "N", "o", "n", "e", "T", "y", "p", "e", "'", " ", "o", "b", "j", "e", "c",
        "t", " ", "h", "a", "s", " ", "n", "o", " ", "a", "t", "t", "r", "i", "b", "u", "t", "e",
        " ", "'", "s", "t", "r", "i", "p", "'">>

EndToEndText == <<"A", "I", " ", "i", "s", " ", "a", " ", "f", "i", "e", "l", "d", " ", "[", "1",
        "]", ".", " ", "I", "t", " ", "h", "a", "s", " ", "m", "a", "n", "y", " ", "u", "s", "e",
        "s", " ", "[", "2", "]", ".">>

GenerationOutcomes ==
    {[kind |-> "api_error", error |-> ApiErrorText, content |-> <<>>],
     [kind |-> "api_error", error |-> <<>>, content |-> <<>>],
     [kind |-> "none_content", error |-> NoStripText, content |-> <<>>]}
    \cup
    {[kind |-> "text", error |-> <<>>, content |-> t] : t \in
        {EndToEndText,
         <<" ", "#", "#", " ", "A", "I", "\n", "-", " ", "a", " ", "t", "o", "o", "l", " ", "[",
                 "2", "]", " ", "[", "2", "]", " ", "[", "7", "]", "\n">>,
         <<"A", "I", " ", "[", "1">> \o <<Dagger>> \o <<"L", "5", "-", "L", "8", "]", " ", "a",
                 "n", "d", " ">> \o <<CjkOpen>> \o <<"2">> \o <<CjkClose>>,
         <<"n", "o", " ", "s", "o", "u", "r", "c", "e", "s", " ", "c", "i", "t", "e", "d">>}}

\* _generate_with_groq: raised = the call or .strip() raised
generate_with_groq(outcome) ==
    IF outcome.kind = "text"
    THEN [raised |-> FALSE, error |-> <<>>, value |-> Strip(outcome.content)]
    ELSE [raised |-> TRUE, error |-> outcome.error, value |-> <<>>]

\* The four citation patterns: opening bracket, closing bracket, with †metadata or not
\* variant: the two forms without metadata only
citation_patterns_plain_only ==
    <<[open |-> "[", close |-> "]", meta |-> FALSE],
      [open |-> CjkOpen, close |-> CjkClose, meta |-> FALSE]>>
citation_patterns ==
    <<[open |-> "[", close |-> "]", meta |-> FALSE],
      [open |-> CjkOpen, close |-> CjkClose, meta |-> FALSE],
      [open |-> "[", close |-> "]", meta |-> TRUE],
      [open |-> CjkOpen, close |-> CjkClose, meta |-> TRUE]>>

\* index of the last character of the longest run of digits starting at i (i - 1 if none)
DigitsEnd(s, i) ==
    LET others == {j \in i..Len(s) : s[j] \notin Digits} IN
    IF others = {} THEN Len(s) ELSE Least(others) - 1

\* index of the first c at or after i, 0 if there is none
IndexFrom(s, c, i) ==
    LET at == {j \in i..Len(s) : s[j] = c} IN
    IF at = {} THEN 0 ELSE Least(at)

\* index of the last character of the match of pattern p starting at i, 0 if no match
MatchEnd(s, i, p) ==
    IF i > Len(s) \/ s[i] # p.open THEN 0
    ELSE LET e == DigitsEnd(s, i + 1) IN
         IF e < i + 1 \/ e + 1 > Len(s) THEN 0
         ELSE IF ~p.meta THEN (IF s[e + 1] = p.close THEN e + 1 ELSE 0)
         ELSE IF s[e + 1] = Dagger THEN IndexFrom(s, p.close, e + 2)
         ELSE 0

\* set(re.findall(pattern, content)): the captured digit strings of the successive
\* non-overlapping matches at or after i
RECURSIVE FindAll(_, _, _)
FindAll(s, i, p) ==
    LET starts == {j \in i..Len(s) : MatchEnd(s, j, p) > 0} IN
    IF starts = {} THEN {}
    ELSE LET j == Least(starts) IN
         {SubSeq(s, j + 1, DigitsEnd(s, j + 1))} \cup FindAll(s, MatchEnd(s, j, p) + 1, p)

extract_citations(content) ==
    UNION {FindAll(content, 1, citation_patterns[k]) : k \in 1..Len(citation_patterns)}

\* _calculate_quality_score, in hundredths
\* variant: a density of exactly 0.5 or 2.0 is outside the good range
calculate_quality_score_open_range(content, citations, words) ==
    LET density == IF words > 0
                   THEN IF citations * 100 > words /\ citations * 25 < words THEN 30
                        ELSE IF citations > 0 THEN 10 ELSE 0
                   ELSE 0
        length == IF 200 <= words /\ words <= 800 THEN 30
                  ELSE IF words >= 100 THEN 20 ELSE 0
        headers == IF Contains(content, <<"#", "#">>) \/ Contains(content, <<"#", "#",
                "#">>) THEN 10 ELSE 0
        lists == IF Contains(content, <<"-", " ">>) \/ Contains(content, <<"*",
                " ">>) THEN 10 ELSE 0
        multiple == IF citations > 2 THEN 20 ELSE 0
    IN  Min(density + length + headers + lists + multiple, 100)

calculate_quality_score(content, citations, words) ==
    LET density == IF words > 0
                   THEN IF citations * 100 >= words /\ citations * 25 <= words THEN 30
                        ELSE IF citations > 0 THEN 10 ELSE 0
                   ELSE 0
        length == IF 200 <= words /\ words <= 800 THEN 30
                  ELSE IF words >= 100 THEN 20 ELSE 0
        headers == IF Contains(content, <<"#", "#">>) \/ Contains(content, <<"#", "#",
                "#">>) THEN 10 ELSE 0
        lists == IF Contains(content, <<"-", " ">>) \/ Contains(content, <<"*",
                " ">>) THEN 10 ELSE 0
        multiple == IF citations > 2 THEN 20 ELSE 0
    IN  Min(density + length + headers + lists + multiple, 100)

\* str(source['id']) in citations_used
IsCited(source, citations_used) == ToStr(source.id) \in citations_used

\* the loop over the sources that builds cited_sources
\* variant: insert(0, ...) in place of append, the last cited source comes first
RECURSIVE cited_sources_prepending(_, _)
cited_sources_prepending(sources, citations_used) ==
    IF sources = <<>> THEN <<>>
    ELSE cited_sources_prepending(Tail(sources), citations_used)
         \o (IF IsCited(Head(sources), citations_used)
             THEN <<[id |-> Head(sources).id, title |-> Head(sources).title,
                     url |-> Head(sources).url]>>
             ELSE <<>>)

RECURSIVE cited_sources(_, _)
cited_sources(sources, citations_used) ==
    IF sources = <<>> THEN <<>>
    ELSE (IF IsCited(Head(sources), citations_used)
          THEN <<[id |-> Head(sources).id, title |-> Head(sources).title,
                  url |-> Head(sources).url]>>
          ELSE <<>>)
         \o cited_sources(Tail(sources), citations_used)

SynthesizedResponse(q, text, sources_used, total_sources, word_count, citation_count, quality) ==
    [query |-> q, response |-> text, sources_used |-> sources_used,
     total_sources |-> total_sources, word_count |-> word_count,
     citation_count |-> citation_count, synthesis_quality_score |-> quality]

\* variant: citation_count is the number of cited sources
process_synthesized_response_counting_sources(content, sources, q) ==
    LET citations_used == extract_citations(content)
        word_count == WordCount(content)
        citation_count == Len(cited_sources(sources, citations_used))
    IN  SynthesizedResponse(q, content, cited_sources(sources, citations_used), Len(sources),
                            word_count, citation_count,
                            calculate_quality_score(content, citation_count, word_count))
process_synthesized_response(content, sources, q) ==
    LET citations_used == extract_citations(content)
        word_count == WordCount(content)
        citation_count == Cardinality(citations_used)
    IN  SynthesizedResponse(q, content, cited_sources(sources, citations_used), Len(sources),
                            word_count, citation_count,
                            calculate_quality_score(content, citation_count, word_count))

\* fallback_content of _create_fallback_response (error: Optional str)
Indent == <<"\n">> \o <<" ", " ", " ", " ", " ", " ", " ", " ", " ", " ", " ", " ">>
fallback_content(q, error) ==
    Indent \o <<"I", " ", "a", "p", "o", "l", "o", "g", "i", "z", "e", ",", " ", "b", "u", "t",
            " ", "I", " ", "e", "n", "c", "o", "u", "n", "t", "e", "r", "e", "d", " ", "d", "i",
            "f", "f", "i", "c", "u", "l", "t", "y", " ", "s", "y", "n", "t", "h", "e", "s", "i",
            "z", "i", "n", "g", " ", "a", " ", "c", "o", "m", "p", "r", "e", "h", "e", "n", "s",
            "i", "v", "e", " ">>
    \o <<"r", "e", "s", "p", "o", "n", "s", "e", " ", "f", "o", "r", " ", "y", "o", "u", "r", " ",
            "q", "u", "e", "r", "y", ":", " ">> \o <<"\"">> \o q \o <<"\"">> \o <<".">>
    \o Indent
    \o (IF IsSome(error) /\ Get(error) # <<>>
        THEN <<"E", "r", "r", "o", "r", " ", "d", "e", "t", "a", "i", "l", "s", ":",
                " ">> \o Get(error)
        ELSE <<"T", "h", "i", "s", " ", "m", "a", "y", " ", "b", "e", " ", "d", "u", "e", " ", "t",
                "o", " ", "l", "i", "m", "i", "t", "e", "d", " ", "s", "e", "a", "r", "c", "h",
                " ", "r", "e", "s", "u", "l", "t", "s", " ", "o", "r", " ", "p", "r", "o", "c",
                "e", "s", "s", "i", "n", "g", " ", "i", "s", "s", "u", "e", "s", ".">>)
    \o Indent \o <<"P", "l", "e", "a", "s", "e", " ", "t", "r", "y", " ", "r", "e", "p", "h", "r",
            "a", "s", "i", "n", "g", " ", "y", "o", "u", "r", " ", "q", "u", "e", "s", "t", "i",
            "o", "n", " ", "o", "r", " ", "a", "s", "k", "i", "n", "g", " ", "a", "b", "o", "u",
            "t", " ", "a", " ", "d", "i", "f", "f", "e", "r", "e", "n", "t", " ", "t", "o", "p",
            "i", "c", ".">>
    \o Indent

create_fallback_response(q, error) ==
    SynthesizedResponse(q, fallback_content(q, error), <<>>, 0,
                        WordCount(fallback_content(q, error)), 0, FallbackQuality)


\* synthesize_response, steps 3 and 4: the try around generation and post-processing,
\* and its except clause. g: what _generate_with_groq did.
\* variant: the failure swallowed and an empty text processed
synthesize_response_swallowing(g, sources, q) ==
    process_synthesized_response(IF g.raised THEN <<>> ELSE g.value, sources, q)
synthesize_response(g, sources, q) ==
    IF g.raised THEN create_fallback_response(q, Some(g.error))
    ELSE process_synthesized_response(g.value, sources, q)
-----------------------------------------------------------------------------
(* SearchOrchestrator.execute_search *)

StatusCompleted == <<"s", "e", "a", "r", "c", "h", "_", "c", "o", "m", "p", "l", "e", "t", "e",
        "d">>
ErrorPrefix == <<"e", "r", "r", "o", "r", ":", " ">>

SearchResponse(q, a, w, s, status) ==
    [original_query |-> q, analysis |-> a, web_results |-> w, synthesized_response |-> s,
     status |-> status]

\* variant: the partial data dropped
create_error_response_no_partial(q, a, w, error) ==
    SearchResponse(q, None, None, None, ErrorPrefix \o error)

create_error_response(q, a, w, error) ==
    SearchResponse(q, a, w, None, ErrorPrefix \o error)

\* `except Exception` of execute_search: where a raising search stage leaves the run
\* variant: the exception swallowed
pc_after_aggregation_swallowed(raised) == "AGGREGATED"
pc_after_aggregation(raised) == IF raised THEN "FAILED" ELSE "AGGREGATED"

Log(stage, event) == stageLog' = Append(stageLog, <<stage, event>>)

\* chunk_document is not running
NoChunking ==
    /\ cpc = "IDLE"
    /\ doc_text = <<>>
    /\ document_id = <<>>
    /\ pages = <<>>
    /\ page_num = 0
    /\ paragraphs = <<>>
    /\ current_chunk = <<>>
    /\ current_tokens = 0
    /\ chunks = <<>>
    /\ all_chunks = <<>>
    /\ running_forced = FALSE
    /\ forced_chunks = {}

\* execute_search is called with a request
PipelineInit ==
    /\ pc = "START"
    /\ query \in Queries
    /\ llmReply = None
    /\ analysis = None
    /\ search_terms = <<>>
    /\ taskState = <<>>
    /\ taskOutcome = <<>>
    /\ taskResult = <<>>
    /\ completionOrder = <<>>
    /\ ranked_results = None
    /\ web_results = None
    /\ processed_sources = <<>>
    /\ genOutcome = None
    /\ genCalls = 0
    /\ synthesized = None
    /\ response = None
    /\ stageLog = <<>>
    /\ calls = <<>>

Init == PipelineInit /\ NoChunking

\* Step 1: analyze_query issues the chat-completion call and awaits it
StartAnalysis ==
    /\ pc = "START"
    /\ pc' = "ANALYZING"
    /\ Log("intent", "start")
    /\ calls' = Append(calls, <<"intent", query>>)
    /\ UNCHANGED <<query, llmReply, analysis, search_terms, taskState, taskOutcome, taskResult,
                   completionOrder, ranked_results, web_results, processed_sources,
                   genOutcome, genCalls, synthesized, response>>
    /\ UNCHANGED chunkVars

\* analyze_query returns: the parsed analysis or the fallback
AnalysisReturns ==
    /\ pc = "ANALYZING"
    /\ \E reply \in IntentReplies(query) :
          /\ llmReply' = Some(reply)
          /\ analysis' = Some(analyze_query(query, reply))
    /\ pc' = "INTENT_ANALYZED"
    /\ Log("intent", "end")
    /\ UNCHANGED <<query, search_terms, taskState, taskOutcome, taskResult, completionOrder,
                   ranked_results, web_results, processed_sources, genOutcome, genCalls,
                   synthesized, response>>
    /\ UNCHANGED <<calls, chunkVars>>

\* Step 2: _execute_web_search derives the terms; search_multiple creates one task per
\* term and gather starts them all. The model's reply is no longer held by anyone.
LaunchSearches ==
    /\ pc = "INTENT_ANALYZED"
    /\ llmReply' = None
    /\ LET terms == derive_search_terms(Get(analysis), query) IN
          /\ search_terms' = terms
          /\ taskState' = [i \in 1..Len(terms) |-> "running"]
          /\ taskOutcome' = [i \in 1..Len(terms) |-> None]
          /\ taskResult' = [i \in 1..Len(terms) |-> None]
    /\ completionOrder' = <<>>
    /\ pc' = "SEARCHING"
    /\ Log("search", "start")
    /\ calls' = calls \o search_calls(search_terms')
    /\ UNCHANGED <<query, analysis, ranked_results, web_results, processed_sources,
                   genOutcome, genCalls, synthesized, response>>
    /\ UNCHANGED chunkVars

\* one _single_search coroutine finishes
SearchTaskCompletes ==
    /\ pc = "SEARCHING"
    /\ \E i \in 1..Len(taskState), outcome \in SearchOutcomes :
          /\ taskState[i] = "running"
          /\ taskState' = [taskState EXCEPT ![i] = "done"]
          /\ taskOutcome' = [taskOutcome EXCEPT ![i] = Some(outcome)]
          /\ taskResult' = [taskResult EXCEPT ![i] = Some(single_search(outcome))]
          /\ completionOrder' = Append(completionOrder, i)
    /\ UNCHANGED <<pc, query, llmReply, analysis, search_terms, ranked_results, web_results,
                   processed_sources, genOutcome, genCalls, synthesized, response, stageLog>>
    /\ UNCHANGED <<calls, chunkVars>>

AllTasksDone == \A i \in 1..Len(taskState) : taskState[i] = "done"

\* gather returns; search_multiple merges, deduplicates and ranks. A raise leaves
\* search_multiple and _execute_web_search and is caught by execute_search.
Aggregate ==
    /\ pc = "SEARCHING"
    /\ AllTasksDone
    /\ LET search_results == gather(taskResult, completionOrder)
           r == search_multiple(search_results)
           held == ranked_in_place(search_results) IN
          /\ pc' = pc_after_aggregation(r.raised)
          /\ IF r.raised
             THEN /\ response' = Some(create_error_response(query, analysis, web_results, r.error))
                  /\ Log("search", "raise")
                  /\ UNCHANGED <<ranked_results, taskResult>>
             ELSE /\ ranked_results' = Some(r.value)
                  /\ taskResult' = [i \in 1..Len(taskResult) |-> Some(held[i])]
                  /\ UNCHANGED <<response, stageLog>>
    /\ UNCHANGED <<query, llmReply, analysis, search_terms, taskState, taskOutcome,
                   completionOrder, web_results, processed_sources, genOutcome, genCalls,
                   synthesized>>
    /\ UNCHANGED <<calls, chunkVars>>

\* search_multiple returns to _execute_web_search, which builds WebSearchResults;
\* the tasks and their results go out of scope
SearchReturns ==
    /\ pc = "AGGREGATED"
    /\ web_results' = Some(WebSearchResults(convert_raw_results_to_schema(Get(ranked_results)),
                                            search_terms))
    /\ taskState' = <<>>
    /\ taskOutcome' = <<>>
    /\ taskResult' = <<>>
    /\ completionOrder' = <<>>
    /\ pc' = "SEARCHED"
    /\ Log("search", "end")
    /\ UNCHANGED <<query, llmReply, analysis, search_terms, ranked_results, processed_sources,
                   genOutcome, genCalls, synthesized, response>>
    /\ UNCHANGED <<calls, chunkVars>>

\* Step 3: synthesize_response prepares the sources, then either returns the fallback
\* or issues the generation call and awaits it
StartSynthesis ==
    /\ pc = "SEARCHED"
    /\ LET sources == process_search_results(Get(web_results).results) IN
          /\ processed_sources' = sources
          /\ IF no_valid_sources(sources)
             THEN /\ synthesized' = Some(create_fallback_response(query, None))
                  /\ pc' = "SYNTHESIZED"
                  /\ stageLog' = stageLog \o <<<<"synthesis", "start">>, <<"synthesis", "end">>>>
                  /\ UNCHANGED <<genCalls, calls>>
             ELSE /\ genCalls' = genCalls + 1
                  /\ calls' = Append(calls, <<"generate", <<>>>>)
                  /\ pc' = "GENERATING"
                  /\ Log("synthesis", "start")
                  /\ UNCHANGED synthesized
    /\ UNCHANGED <<query, llmReply, analysis, search_terms, taskState, taskOutcome, taskResult,
                   completionOrder, ranked_results, web_results, genOutcome, response>>
    /\ UNCHANGED chunkVars

\* the generation call returns or raises with one of `outcomes`; synthesize_response
\* returns
GenerationReturnsFrom(outcomes) ==
    /\ pc = "GENERATING"
    /\ pc' = "SYNTHESIZED"
    /\ Log("synthesis", "end")
    /\ \E outcome \in outcomes :
          LET g == generate_with_groq(outcome) IN
          /\ genOutcome' = Some(outcome)
          /\ synthesized' = Some(synthesize_response(g, processed_sources, query))
    /\ UNCHANGED <<query, llmReply, analysis, search_terms, taskState, taskOutcome, taskResult,
                   completionOrder, ranked_results, web_results, processed_sources, genCalls,
                   response>>
    /\ UNCHANGED <<calls, chunkVars>>

GenerationReturns == GenerationReturnsFrom(GenerationOutcomes)

\* execute_search builds the SearchResponse and returns it
AssembleResponse ==
    /\ pc = "SYNTHESIZED"
    /\ response' = Some(SearchResponse(query, analysis, web_results, synthesized, StatusCompleted))
    /\ pc' = "DONE"
    /\ UNCHANGED <<query, llmReply, analysis, search_terms, taskState, taskOutcome, taskResult,
                   completionOrder, ranked_results, web_results, processed_sources, genOutcome,
                   genCalls, synthesized, stageLog>>
    /\ UNCHANGED <<calls, chunkVars>>

Next ==
    \/ StartAnalysis
    \/ AnalysisReturns
    \/ LaunchSearches
    \/ SearchTaskCompletes
    \/ Aggregate
    \/ SearchReturns
    \/ StartSynthesis
    \/ GenerationReturns
    \/ AssembleResponse

Spec == Init /\ [][Next]_vars

-----------------------------------------------------------------------------
(* Vocabulary of the properties *)

\* the search tasks exist and search_multiple has finished with them
Aggregated == pc = "AGGREGATED"

\* the tasks whose HTTP exchange gave a result list
OkTasks == {i \in 1..Len(taskOutcome) : IsSome(taskOutcome[i]) /\ Get(taskOutcome[i]).kind = "ok"}

\* the positions <<task, index>> of the results fetched by the calls that succeeded
Fetched == {<<i, j>> : i \in OkTasks, j \in 1..MaxPayloadLen + 1} \cap
           UNION {{<<i, j>> : j \in 1..Len(Get(taskOutcome[i]).body)} : i \in OkTasks}

FetchedAt(pos) == Get(taskOutcome[pos[1]]).body[pos[2]]

\* input order: query order, then the order within one response
Before(p, q) == p[1] < q[1] \/ (p[1] = q[1] /\ p[2] < q[2])

\* the first fetched position carrying url u
FirstWithUrl(u) ==
    CHOOSE p \in Fetched :
        /\ FetchedAt(p).url = u
        /\ \A q \in Fetched : FetchedAt(q).url = u => (p = q \/ Before(p, q))

Output == Get(ranked_results)
Unscored(result) == [result EXCEPT !.calculated_score = None]
ScoreOf(result) == Get(result.calculated_score)

-----------------------------------------------------------------------------
(* C1: search_multiple tolerates failing calls. Once every call has finished, and no     *)
(* fetched result is malformed, the batch returns; every returned item comes from the    *)
(* result list of a call that succeeded, so a failed call contributes nothing; the       *)
(* output is empty when every call failed; and it has no more items than there are       *)
(* distinct fetched items.                                                               *)
PartialFailureTolerated ==
    (pc \in {"AGGREGATED", "FAILED"}) =>
        /\ (\A p \in Fetched : ~FetchedAt(p).content_null) => Aggregated
        /\ Aggregated =>
              /\ \A k \in 1..Len(Output) : \E p \in Fetched : FetchedAt(p) = Unscored(Output[k])
              /\ (OkTasks = {}) => Output = <<>>
              /\ Len(Output) <=
                    Cardinality({FetchedAt(p).url : p \in Fetched} \ {<<>>})
                    + Cardinality({p \in Fetched : FetchedAt(p).url = <<>>})

\* a batch with a raising call, a call answered with an HTTP error status and a call
\* that succeeded has returned the items of the successful call
PartialFailureWitness ==
    /\ Aggregated
    /\ \E i, j, k \in 1..Len(taskOutcome) :
          /\ Get(taskOutcome[i]).kind = "client_init_error"
          /\ Get(taskOutcome[j]).kind = "http_status_error"
          /\ Get(taskOutcome[k]).kind = "ok"
          /\ Len(Get(taskOutcome[k]).body) = 2
    /\ Len(Output) = 2

(* C2: execute_search never raises. When a stage raises, the response has the status   *)
(* "error: <message>", no synthesized response, and the analysis and web results that   *)
(* had been computed before the failing stage.                                           *)
ErrorResponseKeepsPartialData ==
    /\ (pc \in {"DONE", "FAILED"}) => IsSome(response)
    /\ (pc = "FAILED") =>
          /\ Take(Get(response).status, 6) = <<"e", "r", "r", "o", "r", ":">>
          /\ Get(response).status = <<"e", "r", "r", "o", "r", ":", " ", "o", "b", "j", "e", "c",
                  "t", " ", "o", "f", " ", "t", "y", "p", "e", " ", "'", "N", "o", "n", "e", "T",
                  "y", "p", "e", "'", " ", "h", "a", "s", " ", "n", "o", " ", "l", "e", "n", "(",
                  ")">>
          /\ Get(response).synthesized_response = None
          /\ Get(response).analysis = analysis
          /\ Get(response).web_results = web_results
          /\ Get(response).original_query = query
          /\ (stageLog[Len(stageLog)] = <<"search", "raise">>) =>
                (IsSome(Get(response).analysis) /\ IsNone(Get(response).web_results))

\* the search stage has raised and the error response carries the analysis
SearchStageRaisedWitness ==
    /\ pc = "FAILED"
    /\ stageLog[Len(stageLog)] = <<"search", "raise">>
    /\ IsSome(response)
    /\ IsSome(Get(response).analysis)
    /\ Get(Get(response).analysis).complexity_score = 8

(* C3: deduplication. For every non-empty url among the fetched results the output      *)
(* holds exactly one item with that url, and it is the first one in input order.        *)
FirstOccurrenceWins ==
    Aggregated =>
        \A u \in {FetchedAt(p).url : p \in Fetched} \ {<<>>} :
            /\ Cardinality({k \in 1..Len(Output) : Output[k].url = u}) = 1
            /\ \E k \in 1..Len(Output) : Unscored(Output[k]) = FetchedAt(FirstWithUrl(u))

\* two different results with one url were fetched, the later query's came first in
\* completion order, and the output holds the one of the earlier query
FirstOccurrenceWitness ==
    /\ Aggregated
    /\ \E p, q \in Fetched :
          /\ p[1] < q[1]
          /\ FetchedAt(p).url = FetchedAt(q).url
          /\ FetchedAt(p).title = "C"
          /\ FetchedAt(q).title = "A"
          /\ completionOrder[1] = q[1]
    /\ \E k \in 1..Len(Output) : Output[k].title = "C"

(* C4: every fetched result with an empty url is kept in the output *)
EmptyUrlItemsKept ==
    Aggregated =>
        \A p \in Fetched :
            FetchedAt(p).url = <<>> =>
                \E k \in 1..Len(Output) : Unscored(Output[k]) = FetchedAt(p)

(* C5: the output is the deduplicated list in descending order of the attached score,   *)
(* with equal scores in the order of the deduplicated list.                              *)
\* what the calls returned, before _rank_results wrote into it
AsReturned(search_result) ==
    [search_result EXCEPT !.results = [j \in 1..Len(search_result.results) |->
                                          Unscored(search_result.results[j])]]

DedupInput ==
    deduplicated_results(collect_all_results(
        [i \in 1..Len(taskResult) |-> AsReturned(Get(taskResult[i]))]))

PositionIn(list, result) == CHOOSE n \in 1..Len(list) : list[n] = Unscored(result)

StableDescendingOrder ==
    Aggregated =>
        /\ Len(Output) = Len(DedupInput)
        /\ \A n \in 1..Len(DedupInput) :
              Cardinality({k \in 1..Len(Output) : Unscored(Output[k]) = DedupInput[n]}) = 1
        /\ \A k \in 1..Len(Output) - 1 : ScoreOf(Output[k]) >= ScoreOf(Output[k + 1])
        /\ \A k, m \in 1..Len(Output) :
              (k < m /\ ScoreOf(Output[k]) = ScoreOf(Output[m])) =>
                  PositionIn(DedupInput, Output[k]) < PositionIn(DedupInput, Output[m])

\* two results of equal score are in the output, in their input order, below a
\* higher-scored one
StableOrderWitness ==
    /\ Aggregated
    /\ Len(Output) = 3
    /\ DedupInput[3].title = "G"
    /\ ScoreOf(Output[1]) > ScoreOf(Output[2])
    /\ ScoreOf(Output[2]) = ScoreOf(Output[3])
    /\ Output[1].title = "G"
    /\ Output[2].title = "B"
    /\ Output[3].title = "A"

(* C6: all search calls are running before one finishes, aggregation waits for all of    *)
(* them, and the output order depends on scores and input positions only, not on the     *)
(* order of completion.                                                                  *)
OrderIndependentOfCompletion ==
    /\ (pc = "SEARCHING") =>
          /\ Len(taskState) = Len(search_terms)
          /\ \A i \in 1..Len(taskState) : taskState[i] \in {"running", "done"}
          /\ IsNone(ranked_results) /\ IsNone(response)
    /\ (pc \in {"AGGREGATED", "FAILED"}) =>
          /\ AllTasksDone
          /\ Len(completionOrder) = Len(search_terms)
    /\ Aggregated =>
          \A k, m \in 1..Len(Output) :
              k < m =>
                  \/ ScoreOf(Output[k]) > ScoreOf(Output[m])
                  \/ /\ ScoreOf(Output[k]) = ScoreOf(Output[m])
                     /\ Before(FirstWithUrl(Output[k].url), FirstWithUrl(Output[m].url))

\* the last query finished first, and two results of equal score from different
\* queries are in the output
CompletionOrderWitness ==
    /\ Aggregated
    /\ Len(search_terms) = 3
    /\ completionOrder = <<3, 2, 1>>
    /\ \E k \in 1..Len(Output) - 1 :
          /\ ScoreOf(Output[k]) = ScoreOf(Output[k + 1])
          /\ FirstWithUrl(Output[k].url)[1] < FirstWithUrl(Output[k + 1].url)[1]

(* C7 as amended: the stages of one run start in the order intent, search, synthesis;  *)
(* a stage starts only after the previous one has returned; none is skipped or          *)
(* repeated; FAILED is entered from the search stage only, by a raise that leaves       *)
(* search_multiple, and never while the intent stage or the synthesis stage is in       *)
(* progress; and nothing happens after DONE or FAILED.                                   *)
Canonical ==
    <<<<"intent", "start">>, <<"intent", "end">>, <<"search", "start">>, <<"search", "end">>,
      <<"synthesis", "start">>, <<"synthesis", "end">>>>

Returned(n) == Take(Canonical, n)
Raised(n) == Take(Canonical, n - 1) \o <<<<Canonical[n][1], "raise">>>>

\* some step of the run enters FAILED from the current state
CanFailNow == ENABLED (pc' = "FAILED" /\ Next)

LinearPipeline ==
    /\ pc \in {"START", "ANALYZING", "INTENT_ANALYZED", "SEARCHING", "AGGREGATED", "SEARCHED",
               "GENERATING", "SYNTHESIZED", "DONE", "FAILED"}
    /\ (pc = "START") <=> (stageLog = Returned(0))
    /\ (pc = "ANALYZING") <=> (stageLog = Returned(1))
    /\ (pc = "INTENT_ANALYZED") <=> (stageLog = Returned(2))
    /\ (pc \in {"SEARCHING", "AGGREGATED"}) <=> (stageLog = Returned(3))
    /\ (pc = "SEARCHED") <=> (stageLog = Returned(4))
    /\ (pc = "GENERATING") <=> (stageLog = Returned(5))
    /\ (pc \in {"SYNTHESIZED", "DONE"}) <=> (stageLog = Returned(6))
    /\ (pc = "FAILED") <=> (stageLog = Raised(4))
    /\ (pc \in {"ANALYZING", "GENERATING"}) => ~CanFailNow
    /\ (pc \in {"DONE", "FAILED"}) => ~ENABLED Next

\* the intent stage returned, the search stage raised, and the run is over: no
\* synthesis was started and no step is left
LinearPipelineWitness ==
    /\ pc = "FAILED"
    /\ stageLog = Raised(4)
    /\ genCalls = 0
    /\ IsNone(synthesized)
    /\ ~ENABLED Next

(* C7 as stated: FAILED is reachable from every non-terminal step. In particular, while *)
(* the intent stage or the synthesis stage is in progress, which is one awaited call    *)
(* each, the step that ends the call can enter FAILED. (For the search stage it can:    *)
(* LinearPipelineWitness.)                                                               *)
FailedFromEveryStep == (pc \in {"ANALYZING", "GENERATING"}) => CanFailNow

\* the end-to-end scenario: two suggested searches, two searches made, two ranked results
\* that both become sources, and the generated text of the scenario
EndToEndCase ==
    /\ Len(Get(analysis).suggested_searches) = 2
    /\ IsSome(web_results)
    /\ Get(web_results).total_results = 2
    /\ Len(Get(web_results).search_terms_used) = 2
    /\ Len(processed_sources) = 2
    /\ IsSome(genOutcome)
    /\ Get(genOutcome).kind = "text"
    /\ Get(genOutcome).content = EndToEndText

\* the response of a run that is done, apart from its status
ResponsePopulated ==
    /\ IsSome(response)
    /\ IsSome(Get(response).analysis)
    /\ IsSome(Get(response).web_results)
    /\ IsSome(Get(response).synthesized_response)
    /\ Get(response).synthesized_response = synthesized
    /\ EndToEndCase =>
          LET answer == Get(Get(response).synthesized_response)
              ranked == Get(web_results).results IN
          /\ answer.citation_count = 2
          /\ Len(answer.sources_used) = 2
          /\ \A n \in 1..2 :
                /\ answer.sources_used[n].id = n
                /\ answer.sources_used[n].url = ranked[n].url
                /\ answer.sources_used[n].title = ranked[n].title

(* C8: a run in which no stage raised ends with the status "completed" and with         *)
(* analysis, web results and synthesized response present; in the end-to-end case (two  *)
(* suggested searches, two ranked results of distinct urls that both become sources,    *)
(* and the generated text "AI is a field [1]. It has many uses [2].") the answer has    *)
(* citation_count 2 and the two sources, in rank order, as sources_used.                *)
CompletedRunStatusCompleted ==
    (pc = "DONE") =>
        /\ ResponsePopulated
        /\ Get(response).status = <<"c", "o", "m", "p", "l", "e", "t", "e", "d">>

\* the end-to-end case has run to its end
CompletedRunWitness ==
    /\ pc = "DONE"
    /\ EndToEndCase
    /\ Get(synthesized).citation_count = 2
    /\ Get(web_results).results[1].url # Get(web_results).results[2].url

\* what execute_search returns instead: the same response under the status of
\* search_orchestrator.py:54
CompletedRun ==
    (pc = "DONE") =>
        /\ ResponsePopulated
        /\ Get(response).status = StatusCompleted

(* C9: analyze_query never raises. When the model call fails, or its answer is not JSON  *)
(* or fails the schema, the analysis is the fallback: query_type factual,                *)
(* suggested_searches [query, query + " explanation", query + " definition"] and         *)
(* complexity_score 5.                                                                   *)
ReplyUsable(reply) ==
    /\ reply.kind = "json_object"
    /\ RequiredFields \subseteq reply.data.has
    /\ reply.data.complexity_score \in 1..10

FallbackOnBadReply ==
    /\ (pc = "INTENT_ANALYZED") => (IsSome(analysis) /\ IsSome(llmReply))
    /\ (IsSome(llmReply) /\ ~ReplyUsable(Get(llmReply))) =>
          /\ Get(analysis).query_type = "factual"
          /\ Get(analysis).suggested_searches =
                <<query, query \o <<" ", "e", "x", "p", "l", "a", "n", "a", "t", "i", "o", "n">>,
                        query \o <<" ", "d", "e", "f", "i", "n", "i", "t", "i", "o", "n">>>>
          /\ Get(analysis).complexity_score = 5

\* the model answered with a JSON object whose complexity_score is 11
FallbackOnBadReplyWitness ==
    /\ pc = "INTENT_ANALYZED"
    /\ Get(llmReply).kind = "json_object"
    /\ Get(llmReply).data.complexity_score = 11
    /\ Get(analysis).complexity_score = 5

(* C10: when no source survives the preparation, synthesize_response returns the         *)
(* fallback answer (no citations, total_sources 0, quality 0.1) and the generation call  *)
(* is not made.                                                                          *)
FallbackWithoutSources ==
    (IsSome(synthesized) /\ processed_sources = <<>>) =>
        /\ Get(synthesized).citation_count = 0
        /\ Get(synthesized).sources_used = <<>>
        /\ Get(synthesized).total_sources = 0
        /\ Get(synthesized).synthesis_quality_score = 10
        /\ genCalls = 0
        /\ IsNone(genOutcome)

\* the search returned evidence, none of it became a source, and the answer is there
FallbackWithoutSourcesWitness ==
    /\ IsSome(synthesized)
    /\ processed_sources = <<>>
    /\ Get(web_results).total_results = 1
    /\ pc = "SYNTHESIZED"


(* C11: synthesize_response never raises when the generation fails. Whatever the         *)
(* generation call raised, the answer is the fallback answer: no citations,              *)
(* total_sources 0, quality 0.1, and the text of the zero-source fallback with the       *)
(* error message in it; the run goes on to its response and never to FAILED.             *)
GenerationFailed == IsSome(genOutcome) /\ Get(genOutcome).kind # "text"

GenerationFailureFallback ==
    /\ GenerationFailed =>
          LET error == Get(genOutcome).error IN
          /\ pc \in {"SYNTHESIZED", "DONE"}
          /\ IsSome(synthesized)
          /\ Get(synthesized).citation_count = 0
          /\ Get(synthesized).sources_used = <<>>
          /\ Get(synthesized).total_sources = 0
          /\ Get(synthesized).synthesis_quality_score = 10
          /\ Get(synthesized).query = query
          /\ Contains(Get(synthesized).response, error)
          /\ (error # <<>>) =>
                Contains(Get(synthesized).response, <<"E", "r", "r", "o", "r", " ", "d", "e", "t",
                        "a", "i", "l", "s", ":", " ">> \o error)
          /\ (error = <<>>) => Get(synthesized) = create_fallback_response(query, None)
          /\ (pc = "DONE") => Get(response).synthesized_response = synthesized
    /\ (pc = "FAILED") => IsNone(genOutcome)

\* sources were prepared, the generation call raised "Connection error." and the run
\* is done with the fallback answer
GenerationFailureWitness ==
    /\ pc = "DONE"
    /\ Len(processed_sources) = 2
    /\ Get(genOutcome).kind = "api_error"
    /\ Get(genOutcome).error = ApiErrorText
    /\ Get(synthesized).total_sources = 0
    /\ Contains(Get(synthesized).response, <<"E", "r", "r", "o", "r", " ", "d", "e", "t", "a", "i",
            "l", "s", ":", " ", "C", "o", "n", "n", "e", "c", "t", "i", "o", "n", " ", "e", "r",
            "r", "o", "r", ".">>)

-----------------------------------------------------------------------------
(* ContentSynthesizer.synthesize_response on its own: called with the ranked evidence   *)
(* of any search and answered by the generation call with any of a family of texts.     *)

\* most results the search returned
MaxEvidence == 3
\* most citation fragments in one generated text
MaxFragments == 2

Evidence == {Catalogue[2], Catalogue[3], Catalogue[5], LowRanked}

\* what search_multiple returns for the evidence in any arrival order
RankedEvidence ==
    {search_multiple(<<[raised |-> FALSE, results |-> raw]>>).value :
        raw \in UNION {[1..n -> Evidence] : n \in 0..MaxEvidence}}

\* a decimal digit and a blank that are not ASCII
ArabicIndicThree == Chr(1635)
NoBreakSpace == Chr(160)

\* Pieces of generated text, each with the ids it cites (str values, as re.findall
\* returns them)
Fragments ==
    <<[piece |-> <<"c", "l", "a", "i", "m", " ", "[", "1", "]", ".">>, ids |-> {<<"1">>}],
      [piece |-> <<"c", "l", "a", "i", "m", " ", "[", "2">> \o <<Dagger>> \o <<"n", "o", "t", "e",
              "]", ".">>, ids |-> {<<"2">>}],
      [piece |-> <<"s", "e", "e", " ", "[", "2", "]">>, ids |-> {<<"2">>}],
      [piece |-> <<CjkOpen>> \o <<"1">> \o <<CjkClose>>, ids |-> {<<"1">>}],
      [piece |-> <<CjkOpen>> \o <<"3">> \o <<Dagger>> \o <<"s", "r", "c">> \o <<CjkClose>>,
              ids |-> {<<"3">>}],
      [piece |-> <<"[", "1", "2", "]">>, ids |-> {<<"1", "2">>}],
      [piece |-> <<"[", "x", "]", " ", "[", "4", " ", "]", " ", "[">> \o <<Dagger>> \o <<"5", "]",
              " ", "6">>, ids |-> {}],
      [piece |-> <<"[", "0", "7", "]">>, ids |-> {<<"0", "7">>}],
      [piece |-> <<"s", "e",
              "e">> \o <<NoBreakSpace>> \o <<"[">> \o <<ArabicIndicThree>> \o <<"]">>,
       ids |-> {<<ArabicIndicThree>>}]>>

FragmentSeqs == UNION {[1..n -> 1..Len(Fragments)] : n \in 0..MaxFragments}

\* the pieces joined by single spaces
RECURSIVE JoinFragments(_)
JoinFragments(fs) ==
    IF fs = <<>> THEN <<>>
    ELSE IF Len(fs) = 1 THEN Fragments[fs[1]].piece
    ELSE Fragments[fs[1]].piece \o <<" ">> \o JoinFragments(Tail(fs))

FragmentText == [fs \in FragmentSeqs |-> JoinFragments(fs)]
FragmentIds(fs) == UNION {Fragments[fs[i]].ids : i \in 1..Len(fs)}

\* "claim [1].", "claim [2†note]." and a plain-bracket citation in one text
ToleranceText == JoinFragments(<<1, 2, 3>>)

CitationTexts == {FragmentText[fs] : fs \in FragmentSeqs} \cup {ToleranceText}

CitationOutcomes ==
    GenerationOutcomes \cup {[kind |-> "text", error |-> <<>>, content |-> t] : t \in CitationTexts}

\* synthesize_response is entered after a search that followed the fallback analysis
SynthInit ==
    /\ pc = "SEARCHED"
    /\ query \in Queries
    /\ llmReply = None
    /\ analysis = Some(create_fall_back_analysis(query))
    /\ search_terms = derive_search_terms(Get(analysis), query)
    /\ taskState = <<>>
    /\ taskOutcome = <<>>
    /\ taskResult = <<>>
    /\ completionOrder = <<>>
    /\ \E ranked \in RankedEvidence :
          /\ ranked_results = Some(ranked)
          /\ web_results = Some(WebSearchResults(convert_raw_results_to_schema(ranked),
                                                 search_terms))
    /\ processed_sources = <<>>
    /\ genOutcome = None
    /\ genCalls = 0
    /\ synthesized = None
    /\ response = None
    /\ stageLog = Returned(4)
    /\ calls = <<<<"intent", query>>>> \o search_calls(search_terms)
    /\ NoChunking

SynthGenerationReturns == GenerationReturnsFrom(CitationOutcomes)

SynthNext ==
    \/ StartSynthesis
    \/ SynthGenerationReturns
    \/ AssembleResponse

SynthSpec == SynthInit /\ [][SynthNext]_vars

\* the generation call returned a text
Generated == IsSome(genOutcome) /\ Get(genOutcome).kind = "text" /\ IsSome(synthesized)

(* C12: the referenced ids are the union of the ids cited by the pieces of the text,     *)
(* whichever of the accepted bracket forms each piece uses; a text with "claim [1].",    *)
(* "claim [2†note]." and a plain "[2]" yields exactly {"1", "2"}; a bracketed integer    *)
(* with a metadata fragment contributes its integer only.                                *)
CitationUnion ==
    Generated =>
        LET content == Get(synthesized).response IN
        /\ \A fs \in FragmentSeqs :
              FragmentText[fs] = content =>
                  /\ extract_citations(content) = FragmentIds(fs)
                  /\ Get(synthesized).citation_count = Cardinality(FragmentIds(fs))
        /\ (content = ToleranceText) =>
              /\ extract_citations(content) = {<<"1">>, <<"2">>}
              /\ Get(synthesized).citation_count = 2
        /\ (content = Fragments[2].piece) => extract_citations(content) = {<<"2">>}

\* the text with the three forms was generated and two ids were counted
CitationUnionWitness ==
    /\ Generated
    /\ Get(synthesized).response = ToleranceText
    /\ Get(synthesized).citation_count = 2
    /\ Len(Get(synthesized).sources_used) = 2

(* C13: citation_count is the number of distinct ids referenced in the text, whether or  *)
(* not a source carries the id, so it is never below the number of entries of            *)
(* sources_used.                                                                         *)
CitationCountIsIdCount ==
    IsSome(synthesized) =>
        LET answer == Get(synthesized) IN
        /\ answer.citation_count >= Len(answer.sources_used)
        /\ Generated =>
              /\ answer.citation_count = Cardinality(extract_citations(answer.response))
              /\ \A n \in 1..Len(answer.sources_used) :
                    ToStr(answer.sources_used[n].id) \in extract_citations(answer.response)
              /\ answer.citation_count - Len(answer.sources_used) =
                    Cardinality({id \in extract_citations(answer.response) :
                                    \A k \in 1..Len(processed_sources) :
                                        ToStr(processed_sources[k].id) # id})

\* the text cites [1] and [12], one source has the id 1 and none the id 12
CitationCountWitness ==
    /\ Generated
    /\ Get(synthesized).response = <<"c", "l", "a", "i", "m", " ", "[", "1", "]", ".", " ", "[",
            "1", "2", "]">>
    /\ Get(synthesized).citation_count = 2
    /\ Len(Get(synthesized).sources_used) = 1
    /\ Get(synthesized).total_sources = 3

(* C14: after the preparation the k surviving sources carry the ids 1, 2, ..., k in     *)
(* rank order, a discarded source leaving no gap.                                        *)
SourceIdsContiguous ==
    \A k \in 1..Len(processed_sources) : processed_sources[k].id = k

(* C15: no call is re-issued. In every state of a run the intent analysis has been       *)
(* called once (never before the start), every search term has been sent once, in the   *)
(* order of the terms, and only after the analysis returned, and the generation has      *)
(* been called at most once and only with sources at hand; a call that failed changes    *)
(* none of this, and every search task finishes once.                                    *)
IsIntentCall(c) == c[1] = "intent"
IsSearchCall(c) == c[1] = "search"
IsGenerateCall(c) == c[1] = "generate"

NoRetry ==
    /\ SelectSeq(calls, IsIntentCall) = IF pc = "START" THEN <<>> ELSE <<<<"intent", query>>>>
    /\ SelectSeq(calls, IsSearchCall) =
          IF pc \in {"START", "ANALYZING", "INTENT_ANALYZED"} THEN <<>>
          ELSE [i \in 1..Len(search_terms) |->
                   <<"search", search_terms[i], max_results_per_search>>]
    /\ Len(SelectSeq(calls, IsGenerateCall)) = genCalls
    /\ genCalls \in {0, 1}
    /\ (genCalls = 1) <=>
          (pc = "GENERATING" \/ (pc \in {"SYNTHESIZED", "DONE"} /\ processed_sources # <<>>))
    /\ Len(completionOrder) = Cardinality({completionOrder[i] : i \in 1..Len(completionOrder)})
    /\ \A i \in 1..Len(taskState) :
          (taskState[i] = "done") <=> (\E n \in 1..Len(completionOrder) : completionOrder[n] = i)

\* the analysis call failed, all three search calls failed, and four calls were issued
NoRetryWitness ==
    /\ Aggregated
    /\ Get(analysis) = create_fall_back_analysis(query)
    /\ Len(taskOutcome) = 3
    /\ \A i \in 1..Len(taskOutcome) : Get(taskOutcome[i]).kind = "transport_error"
    /\ Len(calls) = 4

-----------------------------------------------------------------------------
(* Cancellation of the task running execute_search *)

\* the awaits of execute_search where the run is suspended on an external call, and the
\* stage each belongs to
AwaitStage == [ANALYZING |-> "intent", SEARCHING |-> "search", GENERATING |-> "synthesis"]

\* Task.cancel() on a _single_search awaiting client.post: a finished task is left as it
\* is, an unfinished one has the cancellation requested and is still pending
request_cancel(state) == IF state = "running" THEN "cancelling" ELSE state

\* the CancelledError is thrown into the _single_search: it is no Exception, neither
\* except clause catches it, and the task ends cancelled
\* variant: `except Exception` catches it and the task ends with the empty result
cancel_task_swallowed(state) == IF state = "cancelling" THEN "done" ELSE state
cancel_task(state) == IF state = "cancelling" THEN "cancelled" ELSE state

Unfinished == {i \in 1..Len(taskState) : taskState[i] # "done"}
CancelRequested == \E i \in 1..Len(taskState) : taskState[i] \in {"cancelling", "cancelled"}

\* Task.cancel() on the run before its first step: the CancelledError is thrown into the
\* coroutine that has not started, and no line of execute_search runs
CancelBeforeStart ==
    /\ pc = "START"
    /\ pc' = "CANCELLED"
    /\ UNCHANGED <<query, llmReply, analysis, search_terms, taskState, taskOutcome, taskResult,
                   completionOrder, ranked_results, web_results, processed_sources,
                   genOutcome, genCalls, synthesized, response, stageLog, calls, chunkVars>>

\* Task.cancel() on the run suspended on a call with nothing of its own in flight below
\* it (the intent call, the generation call, or gather with every task finished): the
\* CancelledError is delivered at the await and passes every `except Exception` up to
\* the caller of execute_search
Cancel ==
    /\ pc \in DOMAIN AwaitStage
    /\ Unfinished = {}
    /\ pc' = "CANCELLED"
    /\ Log(AwaitStage[pc], "cancel")
    /\ UNCHANGED <<query, llmReply, analysis, search_terms, taskState, taskOutcome, taskResult,
                   completionOrder, ranked_results, web_results, processed_sources,
                   genOutcome, genCalls, synthesized, response, calls, chunkVars>>

\* Task.cancel() on the run suspended in gather with tasks unfinished: gather passes the
\* request on to each of them, and execute_search stays suspended
CancelSearch ==
    /\ pc = "SEARCHING"
    /\ Unfinished # {}
    /\ ~CancelRequested
    /\ taskState' = [i \in 1..Len(taskState) |-> request_cancel(taskState[i])]
    /\ UNCHANGED <<pc, query, llmReply, analysis, search_terms, taskOutcome, taskResult,
                   completionOrder, ranked_results, web_results, processed_sources,
                   genOutcome, genCalls, synthesized, response, stageLog, calls, chunkVars>>

\* a later callback of the event loop: one task asked to cancel gets its CancelledError.
\* Each _single_search is woken in a callback of its own, in any order, and
\* execute_search is still suspended in gather
SearchTaskCancelled ==
    /\ pc = "SEARCHING"
    /\ \E i \in 1..Len(taskState) :
          /\ taskState[i] = "cancelling"
          /\ taskState' = [taskState EXCEPT ![i] = cancel_task(taskState[i])]
    /\ UNCHANGED <<pc, query, llmReply, analysis, search_terms, taskOutcome, taskResult,
                   completionOrder, ranked_results, web_results, processed_sources,
                   genOutcome, genCalls, synthesized, response, stageLog, calls, chunkVars>>

\* a later turn: gather, all its tasks finished or cancelled, raises CancelledError into
\* search_multiple, and it passes every `except Exception` up to the caller of
\* execute_search
GatherCancelled ==
    /\ pc = "SEARCHING"
    /\ \E i \in 1..Len(taskState) : taskState[i] = "cancelled"
    /\ \A i \in 1..Len(taskState) : taskState[i] \in {"done", "cancelled"}
    /\ pc' = "CANCELLED"
    /\ Log("search", "cancel")
    /\ UNCHANGED <<query, llmReply, analysis, search_terms, taskState, taskOutcome, taskResult,
                   completionOrder, ranked_results, web_results, processed_sources,
                   genOutcome, genCalls, synthesized, response, calls, chunkVars>>

CancelNext ==
    \/ Next
    \/ CancelBeforeStart
    \/ Cancel
    \/ CancelSearch
    \/ SearchTaskCancelled
    \/ GatherCancelled

CancelSpec == Init /\ [][CancelNext]_vars

\* the last stage event of the run
LastEvent == IF stageLog = <<>> THEN <<>> ELSE stageLog[Len(stageLog)]

(* C16: when the run is cancelled during the search, every search call that has not      *)
(* finished ends cancelled, without a result: from the request on none keeps running,    *)
(* none completes and none is turned into a finished call, and execute_search stays      *)
(* suspended until they are cancelled and then ends cancelled; when it is cancelled      *)
(* during the generation, or at any other await, no answer and no response exist, and    *)
(* the run does nothing more.                                                            *)
CancellationPropagates ==
    /\ \A i \in 1..Len(taskState) :
          /\ (taskState[i] = "done") <=>
                (\E n \in 1..Len(completionOrder) : completionOrder[n] = i)
          /\ (taskState[i] # "done") => (IsNone(taskResult[i]) /\ IsNone(taskOutcome[i]))
    /\ CancelRequested =>
          /\ pc \in {"SEARCHING", "CANCELLED"}
          /\ \A i \in 1..Len(taskState) : taskState[i] # "running"
          /\ IsNone(ranked_results) /\ IsNone(web_results) /\ IsNone(response)
          /\ ~ENABLED Next
    /\ (pc = "CANCELLED") =>
          /\ IsNone(response)
          /\ IsNone(synthesized)
          /\ \A i \in 1..Len(taskState) : taskState[i] \in {"done", "cancelled"}
          /\ (LastEvent = <<"search", "cancel">>) =>
                (Len(taskState) = Len(search_terms) /\ IsNone(ranked_results)
                 /\ IsNone(web_results))
          /\ (LastEvent = <<"synthesis", "cancel">>) =>
                (genCalls = 1 /\ IsNone(genOutcome) /\ IsSome(web_results))
          /\ (LastEvent = <<>>) => calls = <<>>
          /\ ~ENABLED CancelNext

\* the run was cancelled when one of three search calls had finished: the two others
\* were cancelled first, then the run
CancelledSearchWitness ==
    /\ pc = "CANCELLED"
    /\ taskState = <<"cancelled", "done", "cancelled">>
    /\ Get(taskOutcome[2]).kind = "ok"
    /\ LastEvent = <<"search", "cancel">>

-----------------------------------------------------------------------------
(* DocumentChunkingService                                                              *)
(*                                                                                      *)
(* A document text is a sequence of segments: Seg("w", n) is n words of one token each  *)
(* joined by single spaces, Seg("blob", n) one word of n tokens (a long string without  *)
(* blank or period), Seg("dot", 1) the sentence separator ". ", Seg("nn", 1) the        *)
(* paragraph break "\n\n", Seg("ws", n) a run of n blanks that makes up a whole page    *)
(* or paragraph, PageMarker(p) the page marker "\n--- Page p ---\n" and MarkerLine(p)   *)
(* the line "--- Page p ---" that is left of a marker at the edge of a stripped text,   *)
(* with the newline between it and the text next to it. The n of a run of words, of a   *)
(* long word, of a separator or of a break is the number of tokens the encoding gives   *)
(* it; the n of a marker and of a marker line is its number of words, and the n of a    *)
(* blank run its number of blanks. The tokens counted are the pieces into which the     *)
(* cl100k_base pattern cuts a text, each short piece of these texts being one token.    *)
(* The documents are the texts DocumentContentExtractor.extract_from_pdf returns, the   *)
(* same texts before the strip, and plain texts without markers.                        *)

max_chunk_size == 1000
overlap_size == 200
min_chunk_size == 200

Dot == Seg("dot", 1)
ParagraphBreak == Seg("nn", 1)

\* words of the line "--- Page p ---"
marker_words == 4

\* f"\n--- Page {page_num + 1} ---\n"
PageMarker(p) == [k |-> "marker", n |-> marker_words, p |-> p]
MarkerLine(p) == [k |-> "line", n |-> marker_words, p |-> p]

\* tokens of the last n words of the line: "---", "p ---" (the number and " ---"),
\* "Page p ---" (the blank before a number is a piece of its own) and "--- Page p ---"
LineWordTokens == <<1, 2, 4, 5>>

\* tokens of the line at the start of a text, the newline after it being part of its
\* last piece, and behind other text, where the newline before it is a piece
line_tokens(at_start) == IF at_start THEN LineWordTokens[marker_words]
                         ELSE LineWordTokens[marker_words] + 1

\* tokens the i-th segment of s adds to the encoding of s. A blank run and a paragraph
\* break are part of the piece of newlines that follows, a paragraph break also of the
\* dashes before it; one blank before a word is part of the word's piece, a longer run
\* leaves one blank to it and is a piece
segment_tokens(s, i) ==
    LET seg == s[i]
        before == IF i > 1 THEN s[i - 1].k ELSE "start"
        after == IF i < Len(s) THEN s[i + 1].k ELSE "end"
    IN  CASE seg.k = "ws" ->
                 IF after \in {"nn", "marker", "line"} THEN 0
                 ELSE IF after = "end" \/ seg.n > 1 THEN 1
                 ELSE 0
          [] seg.k = "nn" ->
                 IF before \in {"line", "lw", "marker"} \/ after \in {"marker", "line"}
                 THEN 0 ELSE 1
          [] seg.k = "marker" -> line_tokens(FALSE)
          [] seg.k = "line" -> line_tokens(i = 1)
          [] seg.k = "lw" -> LineWordTokens[seg.n]
          [] OTHER -> seg.n

\* len(self.tokenizer.encode(s))
RECURSIVE tokens_from(_, _)
tokens_from(s, i) ==
    IF i > Len(s) THEN 0 ELSE segment_tokens(s, i) + tokens_from(s, i + 1)

token_count(s) == tokens_from(s, 1)

\* s.split(sep), sep being the segment of kind k
RECURSIVE SplitAt(_, _)
SplitAt(s, k) ==
    LET at == {i \in 1..Len(s) : s[i].k = k} IN
    IF at = {} THEN <<s>>
    ELSE <<SubSeq(s, 1, Least(at) - 1)>> \o SplitAt(SubSeq(s, Least(at) + 1, Len(s)), k)

\* a segment at the edge of a stripped text: a page marker loses its outer newline
strip_edge(seg) == IF seg.k = "marker" THEN MarkerLine(seg.p) ELSE seg

\* s.strip()
strip_text(s) ==
    LET kept == {i \in 1..Len(s) : s[i].k \notin {"ws", "nn"}} IN
    IF kept = {} THEN <<>>
    ELSE LET first == Least(kept)
             last == CHOOSE i \in kept : \A j \in kept : i >= j
         IN  [i \in 1..(last - first + 1) |->
                 IF i \in {1, last - first + 1} THEN strip_edge(s[first + i - 1])
                 ELSE s[first + i - 1]]

\* not s.strip()
\* variant: `not s`, the text is tested without being stripped
IsBlank_unstripped(s) == s = <<>>
IsBlank(s) == strip_text(s) = <<>>
NotBlank(s) == ~IsBlank(s)

\* _split_by_pages
split_by_pages(t) ==
    LET split == SplitAt(t, "marker")
        kept == IF IsBlank(split[1]) THEN Tail(split) ELSE split
    IN  IF Len(kept) <= 1 THEN <<t>> ELSE kept

\* [p.strip() for p in text.split('\n\n') if p.strip()]
page_paragraphs(t) ==
    LET split == SplitAt(t, "nn") IN
    SelectSeq([i \in 1..Len(split) |-> strip_text(split[i])], NotBlank)

\* ' '.join(s.split()) for s without blank run: a paragraph break becomes a single space,
\* so the words on its two sides follow each other, and the runs of one-token words that
\* meet form one run; the words of a marker line become words among the others
IsNotBreak(seg) == seg.k # "nn"
line_words(seg) == IF seg.k = "line" THEN [seg EXCEPT !.k = "lw"] ELSE seg

RECURSIVE merge_runs(_)
merge_runs(s) ==
    IF Len(s) <= 1 THEN s
    ELSE IF s[1].k = "w" /\ s[2].k = "w"
         THEN merge_runs(<<Seg("w", s[1].n + s[2].n)>> \o SubSeq(s, 3, Len(s)))
    ELSE <<s[1]>> \o merge_runs(Tail(s))

join_words(s) ==
    LET words == SelectSeq(s, IsNotBreak) IN
    merge_runs([i \in 1..Len(words) |-> line_words(words[i])])

\* words.pop(0) on the words of a marker line: the line loses its first word, and once
\* only the closing dashes are left nothing tells the page
pop_line_word(seg) ==
    IF seg.n = 1 THEN <<>>
    ELSE IF seg.n = 2 THEN <<Seg("lw", 1)>>
    ELSE <<[seg EXCEPT !.n = seg.n - 1]>>

\* the loop `while len(encode(' '.join(words))) > overlap_size and words: words.pop(0)`,
\* excess being the number of tokens above overlap_size. The last word of a sentence
\* carries the period and has one token more; a long word goes in one piece; the
\* words of a marker line go one by one.
RECURSIVE pop_words(_, _)
pop_words(words, excess) ==
    IF excess <= 0 \/ words = <<>> THEN words
    ELSE LET head == Head(words)
             dotted == Len(words) > 1 /\ words[2].k = "dot"
         IN  IF head.k = "lw"
             THEN LET left == pop_line_word(head) IN
                  pop_words(left \o Tail(words),
                            excess - (token_count(<<head>>) - token_count(left)))
             ELSE IF head.k = "w" /\ head.n > excess
             THEN <<[head EXCEPT !.n = head.n - excess]>> \o Tail(words)
             ELSE IF dotted
                  THEN pop_words(SubSeq(words, 3, Len(words)), excess - head.n - 1)
             ELSE pop_words(Tail(words), excess - head.n)

\* the last two pieces of text.split('. '), or the only one
last_sentences(t) ==
    LET sentences == SplitAt(t, "dot")
        n == Len(sentences)
    IN  IF n >= 2 THEN sentences[n - 1] \o <<Dot>> \o sentences[n] ELSE sentences[n]

\* _get_overlap_text
\* variant: the overlap is not limited
get_overlap_text_unlimited(t) == last_sentences(t)
get_overlap_text(t) ==
    LET overlap == last_sentences(t)
    IN  IF token_count(overlap) > overlap_size
        THEN pop_words(join_words(overlap), token_count(join_words(overlap)) - overlap_size)
        ELSE overlap

\* f"{document_id}_chunk_{index}"
chunk_id(doc, index) == doc \o <<"_", "c", "h", "u", "n", "k", "_">> \o ToStr(index)

DocumentChunk(doc, content, page_number, chunk_index, tokens) ==
    [chunk_id |-> chunk_id(doc, chunk_index), document_id |-> doc, content |-> content,
     page_number |-> page_number, chunk_index |-> chunk_index, token_count |-> tokens]

\* start_index of _chunk_page_text
\* variant: the index starts again on every page
start_index_per_page(done) == 0
start_index(done) == Len(done)

\* current_chunk += "\n\n" + paragraph if current_chunk else paragraph
append_paragraph(chunk, paragraph) ==
    IF chunk # <<>> THEN chunk \o <<ParagraphBreak>> \o paragraph ELSE paragraph

\* overlap_text + "\n\n" + paragraph if overlap_text else paragraph
\* variant: the new chunk is the overlap alone
start_with_overlap_only(chunk, paragraph) == get_overlap_text(chunk)
start_with_overlap(chunk, paragraph) == append_paragraph(get_overlap_text(chunk), paragraph)

\* `if current_tokens > self.min_chunk_size`
large_enough(tokens) == tokens > min_chunk_size

\* `if current_tokens + paragraph_tokens > self.max_chunk_size`
exceeds_max(tokens, paragraph_tokens) == tokens + paragraph_tokens > max_chunk_size

\* most paragraphs in one document
MaxParagraphs == 3

\* the paragraph made of the given sentences
RECURSIVE Paragraph(_)
Paragraph(sentences) ==
    IF Len(sentences) = 1 THEN <<sentences[1]>>
    ELSE <<sentences[1], Dot>> \o Paragraph(Tail(sentences))

\* paragraphs of one sentence of 900, 200 or 150 words, of three sentences, the last two
\* together smaller or larger than the overlap, and of one long word
ParagraphKinds ==
    {<<Seg("w", 900)>>, <<Seg("w", 200)>>, <<Seg("w", 150)>>,
     <<Seg("w", 500), Seg("w", 60), Seg("w", 50)>>,
     <<Seg("w", 500), Seg("w", 150), Seg("w", 100)>>,
     <<Seg("blob", 950)>>}

\* what stands between two paragraphs: a paragraph break or the end of the page
Boundaries == {"nn", "page"}

\* the texts page.get_text() gives for the pages of a document whose paragraphs are ps
RECURSIVE PageTexts(_, _)
PageTexts(ps, bs) ==
    IF Len(ps) = 1 THEN <<Paragraph(ps[1])>>
    ELSE LET rest == PageTexts(Tail(ps), Tail(bs)) IN
         IF bs[1] = "nn"
         THEN <<Paragraph(ps[1]) \o <<ParagraphBreak>> \o Head(rest)>> \o Tail(rest)
         ELSE <<Paragraph(ps[1])>> \o rest

\* a page without text
BlankPage == <<Seg("ws", 1)>>

\* where a document has a page without text
BlankPlaces == {"none", "first", "second", "last"}

WithBlankPage(texts, place) ==
    CASE place = "none" -> texts
      [] place = "first" -> <<BlankPage>> \o texts
      [] place = "second" -> <<Head(texts), BlankPage>> \o Tail(texts)
      [] place = "last" -> texts \o <<BlankPage>>

\* the loop of extract_from_pdf: text_content += f"\n--- Page {page_num + 1} ---\n{page_text}"
RECURSIVE text_content(_, _)
text_content(texts, done) ==
    IF done = Len(texts) THEN <<>>
    ELSE <<PageMarker(done + 1)>> \o texts[done + 1] \o text_content(texts, done + 1)

\* extract_from_pdf: the text of ExtractedContent is text_content.strip()
extract_from_pdf(texts) == strip_text(text_content(texts, 0))

\* the text of the PDF route
ExtractedText(ps, bs, place) == extract_from_pdf(WithBlankPage(PageTexts(ps, bs), place))

\* texts of the text route: paragraphs without page markers, texts with a marker before
\* every page, and blank texts
PlainText(ps) == PageTexts(ps, [i \in 1..Len(ps) - 1 |-> "nn"])[1]
MarkedText(ps, bs) == text_content(PageTexts(ps, bs), 0)
BlankTexts == {<<>>, <<Seg("ws", 2)>>, <<Seg("ws", 1), ParagraphBreak, Seg("ws", 1)>>}

\* text is one of the documents
IsDocument(text) ==
    \/ text \in BlankTexts
    \/ \E n \in 1..MaxParagraphs : \E ps \in [1..n -> ParagraphKinds] :
          \/ text = PlainText(ps)
          \/ \E bs \in [1..n - 1 -> Boundaries] :
                \/ text = MarkedText(ps, bs)
                \/ \E place \in BlankPlaces : text = ExtractedText(ps, bs, place)

DocumentIds == {<<"d", "1">>}

\* chunk_document is called
ChunkInit ==
    /\ PipelineInit
    /\ cpc = "CALLED"
    /\ IsDocument(doc_text)
    /\ document_id \in DocumentIds
    /\ pages = <<>>
    /\ page_num = 0
    /\ paragraphs = <<>>
    /\ current_chunk = <<>>
    /\ current_tokens = 0
    /\ chunks = <<>>
    /\ all_chunks = <<>>
    /\ running_forced = FALSE
    /\ forced_chunks = {}

\* pages = self._split_by_pages(text); all_chunks = []
StartChunking ==
    /\ cpc = "CALLED"
    /\ pages' = split_by_pages(doc_text)
    /\ all_chunks' = <<>>
    /\ cpc' = "PAGES"
    /\ UNCHANGED <<doc_text, document_id, page_num, paragraphs, current_chunk, current_tokens,
                   chunks, running_forced, forced_chunks, pipelineVars>>

\* `if not page_text.strip(): continue`
SkipBlankPage ==
    /\ cpc = "PAGES"
    /\ page_num < Len(pages)
    /\ IsBlank(pages[page_num + 1])
    /\ page_num' = page_num + 1
    /\ UNCHANGED <<cpc, doc_text, document_id, pages, paragraphs, current_chunk, current_tokens,
                   chunks, all_chunks, running_forced, forced_chunks, pipelineVars>>

\* _chunk_page_text is called for the next page and splits it into paragraphs
EnterPage ==
    /\ cpc = "PAGES"
    /\ page_num < Len(pages)
    /\ ~IsBlank(pages[page_num + 1])
    /\ page_num' = page_num + 1
    /\ paragraphs' = page_paragraphs(pages[page_num + 1])
    /\ current_chunk' = <<>>
    /\ current_tokens' = 0
    /\ chunks' = <<>>
    /\ running_forced' = FALSE
    /\ cpc' = "PARAGRAPHS"
    /\ UNCHANGED <<doc_text, document_id, pages, all_chunks, forced_chunks, pipelineVars>>

\* the chunk the running chunk makes when it is saved
SavedChunk ==
    DocumentChunk(document_id, strip_text(current_chunk), page_num,
                  start_index(all_chunks) + Len(chunks), current_tokens)

SavedForced ==
    IF running_forced THEN forced_chunks \cup {SavedChunk.chunk_index} ELSE forced_chunks

\* loop body, else branch: the paragraph fits
AddParagraph ==
    /\ cpc = "PARAGRAPHS"
    /\ paragraphs # <<>>
    /\ LET paragraph == Head(paragraphs)
           paragraph_tokens == token_count(paragraph) IN
          /\ ~exceeds_max(current_tokens, paragraph_tokens)
          /\ current_chunk' = append_paragraph(current_chunk, paragraph)
          /\ current_tokens' = current_tokens + paragraph_tokens
    /\ paragraphs' = Tail(paragraphs)
    /\ UNCHANGED <<cpc, doc_text, document_id, pages, page_num, chunks, all_chunks,
                   running_forced, forced_chunks, pipelineVars>>

\* loop body: the paragraph does not fit and the running chunk is large enough; it is
\* saved and the next one starts with the overlap
CloseChunk ==
    /\ cpc = "PARAGRAPHS"
    /\ paragraphs # <<>>
    /\ LET paragraph == Head(paragraphs)
           paragraph_tokens == token_count(paragraph) IN
          /\ exceeds_max(current_tokens, paragraph_tokens)
          /\ large_enough(current_tokens)
          /\ chunks' = Append(chunks, SavedChunk)
          /\ forced_chunks' = SavedForced
          /\ current_chunk' = start_with_overlap(current_chunk, paragraph)
          /\ current_tokens' = token_count(start_with_overlap(current_chunk, paragraph))
    /\ running_forced' = FALSE
    /\ paragraphs' = Tail(paragraphs)
    /\ UNCHANGED <<cpc, doc_text, document_id, pages, page_num, all_chunks, pipelineVars>>

\* loop body: the paragraph does not fit and the running chunk is too small; the
\* paragraph is added all the same
ForceAppend ==
    /\ cpc = "PARAGRAPHS"
    /\ paragraphs # <<>>
    /\ LET paragraph == Head(paragraphs)
           paragraph_tokens == token_count(paragraph) IN
          /\ exceeds_max(current_tokens, paragraph_tokens)
          /\ ~large_enough(current_tokens)
          /\ current_chunk' = append_paragraph(current_chunk, paragraph)
          /\ current_tokens' = current_tokens + paragraph_tokens
    /\ running_forced' = TRUE
    /\ paragraphs' = Tail(paragraphs)
    /\ UNCHANGED <<cpc, doc_text, document_id, pages, page_num, chunks, all_chunks,
                   forced_chunks, pipelineVars>>

\* after the loop: the final chunk is saved; _chunk_page_text returns and chunk_document
\* extends all_chunks
EmitFinalChunk ==
    /\ cpc = "PARAGRAPHS"
    /\ paragraphs = <<>>
    /\ large_enough(current_tokens)
    /\ chunks' = Append(chunks, SavedChunk)
    /\ forced_chunks' = SavedForced
    /\ all_chunks' = all_chunks \o Append(chunks, SavedChunk)
    /\ cpc' = "PAGES"
    /\ UNCHANGED <<doc_text, document_id, pages, page_num, paragraphs, current_chunk,
                   current_tokens, running_forced, pipelineVars>>

\* after the loop: the final chunk is too small and is not saved
DropFinalChunk ==
    /\ cpc = "PARAGRAPHS"
    /\ paragraphs = <<>>
    /\ ~large_enough(current_tokens)
    /\ all_chunks' = all_chunks \o chunks
    /\ cpc' = "PAGES"
    /\ UNCHANGED <<doc_text, document_id, pages, page_num, paragraphs, current_chunk,
                   current_tokens, chunks, running_forced, forced_chunks, pipelineVars>>

\* chunk_document returns all_chunks
ReturnChunks ==
    /\ cpc = "PAGES"
    /\ page_num = Len(pages)
    /\ cpc' = "RETURNED"
    /\ UNCHANGED <<doc_text, document_id, pages, page_num, paragraphs, current_chunk,
                   current_tokens, chunks, all_chunks, running_forced, forced_chunks,
                   pipelineVars>>

ChunkNext ==
    \/ StartChunking
    \/ SkipBlankPage
    \/ EnterPage
    \/ AddParagraph
    \/ CloseChunk
    \/ ForceAppend
    \/ EmitFinalChunk
    \/ DropFinalChunk
    \/ ReturnChunks

ChunkSpec == ChunkInit /\ [][ChunkNext]_vars

-----------------------------------------------------------------------------
(* Vocabulary of the chunker properties *)

\* _chunk_page_text has just returned for page page_num: its locals are still in view
PageDone == cpc = "PAGES" /\ page_num >= 1 /\ ~IsBlank(pages[page_num])

\* the final running chunk of the page was saved
FinalSaved ==
    /\ chunks # <<>>
    /\ chunks[Len(chunks)].content = strip_text(current_chunk)
    /\ chunks[Len(chunks)].token_count = current_tokens

\* the content that follows the chunk before it on the page, without the overlap
\* injected from that chunk
WithoutOverlap(content, before) ==
    LET overlap == get_overlap_text(before) IN
    IF overlap = <<>> THEN content ELSE SubSeq(content, Len(overlap) + 2, Len(content))

StartsWithOverlap(content, before) ==
    LET overlap == get_overlap_text(before) IN
    overlap # <<>> =>
        /\ Len(content) >= Len(overlap) + 2
        /\ SubSeq(content, 1, Len(overlap)) = overlap
        /\ content[Len(overlap) + 1] = ParagraphBreak

\* the paragraphs of the n-th of the contents cs of one page, overlap removed
OwnParagraphs(cs, n) ==
    page_paragraphs(IF n = 1 THEN cs[1] ELSE WithoutOverlap(cs[n], cs[n - 1]))

RECURSIVE Reconstructed(_, _)
Reconstructed(cs, n) ==
    IF n = 0 THEN <<>> ELSE Reconstructed(cs, n - 1) \o OwnParagraphs(cs, n)

SavedContents == [i \in 1..Len(chunks) |-> chunks[i].content]

(* C17: every chunk has a token_count of at most max_chunk_size, unless a paragraph was  *)
(* appended to it by the forced append.                                                  *)
TokenCountWithinMax ==
    /\ \A i \in 1..Len(chunks) :
          chunks[i].token_count <= max_chunk_size \/ chunks[i].chunk_index \in forced_chunks
    /\ \A i \in 1..Len(all_chunks) :
          all_chunks[i].token_count <= max_chunk_size
          \/ all_chunks[i].chunk_index \in forced_chunks

(* C18 as amended: for every page, the contents of its chunks, in order and each        *)
(* without the overlap injected from the chunk before it, are the paragraphs of the      *)
(* page, in order and each once, up to those of the final running chunk: these are       *)
(* missing when that chunk, having at most min_chunk_size tokens, is not saved.          *)
RoundTripUpToDroppedTail ==
    PageDone =>
        LET original == page_paragraphs(pages[page_num])
            held == IF FinalSaved THEN SavedContents
                    ELSE Append(SavedContents, strip_text(current_chunk))
        IN  /\ \A n \in 2..Len(held) : StartsWithOverlap(held[n], held[n - 1])
            /\ Reconstructed(held, Len(held)) = original
            /\ FinalSaved => Reconstructed(SavedContents, Len(chunks)) = original
            /\ ~FinalSaved =>
                  /\ current_tokens <= min_chunk_size
                  /\ Reconstructed(SavedContents, Len(chunks)) =
                        Take(original, Len(original) - Len(OwnParagraphs(held, Len(held))))

\* a page of three paragraphs gave two chunks, the second starting with the overlap
RoundTripWitness ==
    /\ PageDone
    /\ Len(page_paragraphs(pages[page_num])) = 3
    /\ Len(chunks) = 2
    /\ FinalSaved
    /\ get_overlap_text(chunks[1].content) # <<>>
    /\ Len(OwnParagraphs(SavedContents, 2)) = 1

(* C18 as stated: the chunks of every page, overlap removed, give back all the          *)
(* paragraphs of the page.                                                               *)
RoundTripAllParagraphs ==
    PageDone => Reconstructed(SavedContents, Len(chunks)) = page_paragraphs(pages[page_num])

(* C19: at the end of a page the final running chunk is saved if and only if it has at   *)
(* least min_chunk_size tokens.                                                          *)
FinalChunkSavedFromMin ==
    PageDone => (FinalSaved <=> current_tokens >= min_chunk_size)

(* C20: the chunk_index of the chunks is their position in the returned list, counted    *)
(* from 0 across the pages; chunk_id is made of document_id and chunk_index;             *)
(* page_number is at least 1 and never decreases along the list.                         *)
RunningChunkIndex ==
    /\ \A i \in 1..Len(all_chunks) :
          /\ all_chunks[i].chunk_index = i - 1
          /\ all_chunks[i].document_id = document_id
          /\ all_chunks[i].chunk_id = document_id \o <<"_", "c", "h", "u", "n", "k",
                  "_">> \o ToStr(i - 1)
          /\ all_chunks[i].page_number \in 1..Len(pages)
    /\ \A i, j \in 1..Len(all_chunks) :
          i < j => all_chunks[i].page_number <= all_chunks[j].page_number
    /\ (cpc = "PARAGRAPHS") =>
          \A i \in 1..Len(chunks) :
              /\ chunks[i].chunk_index = Len(all_chunks) + i - 1
              /\ chunks[i].page_number = page_num

\* three pages, the second has text but gave no chunk, the first and the third gave
\* one chunk each
RunningChunkIndexWitness ==
    /\ cpc = "RETURNED"
    /\ Len(pages) = 3
    /\ ~IsBlank(pages[2])
    /\ Len(all_chunks) = 2
    /\ all_chunks[1].page_number = 1
    /\ all_chunks[2].page_number = 3
    /\ all_chunks[2].chunk_index = 1

(* C21: chunk_document never raises on an empty or whitespace-only text and returns the  *)
(* empty list: the text is its own single page, that page is skipped as blank, no        *)
(* paragraph of it is ever looked at, and the call ends with all_chunks empty.           *)
BlankTextGivesNoChunks ==
    strip_text(doc_text) = <<>> =>
        /\ cpc # "PARAGRAPHS"
        /\ cpc # "CALLED" => pages = <<doc_text>>
        /\ paragraphs = <<>> /\ chunks = <<>> /\ all_chunks = <<>>
        /\ cpc = "RETURNED" => page_num = 1

\* the call has returned for a text of blanks and line breaks
BlankTextWitness ==
    /\ cpc = "RETURNED"
    /\ doc_text = <<Seg("ws", 1), ParagraphBreak, Seg("ws", 1)>>
    /\ all_chunks = <<>>

-----------------------------------------------------------------------------
(* The search terms of _execute_web_search *)

\* the search calls have been issued
TermsDerived == pc \notin {"START", "ANALYZING", "INTENT_ANALYZED"}

\* the terms as the analysis and the query determine them: the suggestions when the
\* query is one of them whatever the case of its letters, else the query and the first
\* two suggestions; the first two of these for a complexity of 3 or less, else three
ExpectedTerms ==
    LET suggested == Get(analysis).suggested_searches
        among == \E i \in 1..Len(suggested) : Lower(suggested[i]) = Lower(query)
        list == IF among THEN suggested
                ELSE <<query>> \o SubSeq(suggested, 1, Min(2, Len(suggested)))
        cap == IF Get(analysis).complexity_score <= 3 THEN 2 ELSE 3
    IN  SubSeq(list, 1, Min(cap, Len(list)))

(* C22: the search terms are the suggested searches, or the query followed by the first  *)
(* two of them when the query is not among them (letters compared without case), cut to  *)
(* two terms for a complexity_score of 3 or less and to three otherwise; these terms, in *)
(* this order, are the queries of the search calls, each asking for 2 results, and the   *)
(* search_terms_used of the web results.                                                 *)
SearchTermDerivation ==
    TermsDerived =>
        LET expected == ExpectedTerms IN
        /\ search_terms = expected
        /\ SelectSeq(calls, IsSearchCall) =
              [i \in 1..Len(expected) |-> <<"search", expected[i], 2>>]
        /\ IsSome(web_results) => Get(web_results).search_terms_used = expected

\* the query is among four suggestions in other letters, at a place the cut removes:
\* the two terms searched are the first two suggestions and the query is not searched
SearchTermWitness ==
    /\ pc = "SEARCHED"
    /\ Len(Get(analysis).suggested_searches) = 4
    /\ Get(analysis).complexity_score = 3
    /\ query \notin {Get(analysis).suggested_searches[i] : i \in 1..4}
    /\ Get(web_results).search_terms_used = Take(Get(analysis).suggested_searches, 2)

-----------------------------------------------------------------------------
(* TavilyService._rank_results on its own: search_multiple has gathered the answer of    *)
(* one search, which holds any short list of results.                                    *)

\* most results in the answer
MaxRanked == 3

RankInputs == UNION {[1..n -> {RankCatalogue[i] : i \in 1..Len(RankCatalogue)}] : n \in 0..MaxRanked}

\* the intent model suggested nothing, so the query is the one search term; its search
\* has finished
RankInit ==
    /\ pc = "SEARCHING"
    /\ query \in Queries
    /\ llmReply = None
    /\ analysis = Some(QueryAnalysis(AnalysisData(RequiredFields, <<>>, 3)))
    /\ search_terms = derive_search_terms(Get(analysis), query)
    /\ taskState = <<"done">>
    /\ \E raw \in RankInputs :
          /\ taskOutcome = <<Some([kind |-> "ok", body |-> raw])>>
          /\ taskResult = <<Some(single_search([kind |-> "ok", body |-> raw]))>>
    /\ completionOrder = <<1>>
    /\ ranked_results = None
    /\ web_results = None
    /\ processed_sources = <<>>
    /\ genOutcome = None
    /\ genCalls = 0
    /\ synthesized = None
    /\ response = None
    /\ stageLog = Returned(3)
    /\ calls = <<<<"intent", query>>>> \o search_calls(search_terms)
    /\ NoChunking

RankNext ==
    \/ Aggregate
    \/ SearchReturns

RankSpec == RankInit /\ [][RankNext]_vars

\* the results the search answered with, before deduplication
RankInput == Get(taskOutcome[1]).body

(* C23: every result of the ranked output, the last one as well, carries a               *)
(* calculated_score, which is its score (0 when it has none) plus 1.0 for a content of   *)
(* more than 500 characters or 0.5 for one of more than 200 and at most 500, plus the    *)
(* domain boost; the output is in descending order of the attached values, and the       *)
(* SearchResult objects made of it carry the same values.                                *)
ScoreAttachedToAll ==
    IsSome(ranked_results) =>
        /\ \A i \in 1..Len(Output) :
              LET item == Output[i]
                  base == IF "score" \in DOMAIN item THEN item.score ELSE 0
                  chars == SumLen(item.content)
                  bonus == IF chars > 500 THEN 100 ELSE IF chars > 200 THEN 50 ELSE 0
              IN  /\ IsSome(item.calculated_score)
                  /\ ScoreOf(item) = base + bonus + domain_bonus(item.url)
        /\ \A i, j \in 1..Len(Output) : i < j => ScoreOf(Output[i]) >= ScoreOf(Output[j])
        /\ IsSome(web_results) =>
              /\ Len(Get(web_results).results) = Len(Output)
              /\ \A i \in 1..Len(Output) :
                    Get(web_results).results[i].calculated_score = Output[i].calculated_score

\* the output ends with a result of exactly 200 characters, after one without score
ScoreAttachedWitness ==
    /\ pc = "SEARCHED"
    /\ Len(Output) = 2
    /\ "score" \notin DOMAIN Output[1]
    /\ ScoreOf(Output[1]) = 115
    /\ SumLen(Output[2].content) = 200
    /\ ScoreOf(Output[2]) = 65

\* the domains the allowlist of calculate_score names
NamedDomains ==
    ({reputable_domains[d] : d \in 1..Len(reputable_domains)}
        \ {<<"c", "r", "i", "c", "b", "u", "z", "z", ".", "c", "o", "m", "e", "s", "p", "n", "c",
                "r", "i", "c", "i", "n", "f", "o", ".", "c", "o", "m">>})
    \cup {<<"c", "r", "i", "c", "b", "u", "z", "z", ".", "c", "o", "m">>, <<"e", "s", "p", "n",
            "c", "r", "i", "c", "i", "n", "f", "o", ".", "c", "o", "m">>}

\* the host of a URL of the form scheme://host/...
Host(url) ==
    LET start == Least({i \in 1..Len(url) : MatchesAt(url, <<":", "/", "/">>, i)}) + 3
        stop == Least({i \in start..Len(url) + 1 : i = Len(url) + 1 \/ url[i] = "/"})
    IN  Lower(SubSeq(url, start, stop - 1))

EndsWith(s, suffix) ==
    Len(s) >= Len(suffix) /\ SubSeq(s, Len(s) - Len(suffix) + 1, Len(s)) = suffix

\* the host is a named domain or a subdomain of one
HostListed(url) ==
    \E name \in NamedDomains : Host(url) = name \/ EndsWith(Host(url), <<".">> \o name)

(* C24: the domain boost of a ranked result is 0.15 exactly when the host of its URL is  *)
(* one of the domains the allowlist names, or a subdomain of one, and 0 otherwise.       *)
DomainBonusByHost ==
    IsSome(ranked_results) =>
        \A i \in 1..Len(Output) :
            ScoreOf(Output[i]) - get_score(Output[i]) - length_bonus(SumLen(Output[i].content))
                = IF HostListed(Output[i].url) THEN 15 ELSE 0

-----------------------------------------------------------------------------
(* ContentSynthesizer.synthesize_response on its own, called with long result lists     *)

\* result lists of every length up to MaxListed: plain results, but for at most two
\* places that hold a result of another kind
SourceLists ==
    UNION {{[i \in 1..n |-> SourceItem(i, IF i = a THEN ka ELSE IF i = b THEN kb ELSE "plain")] :
                a \in 1..n, b \in 1..n, ka \in DOMAIN SourceKinds, kb \in DOMAIN SourceKinds} :
           n \in 1..MaxListed}

\* what search_multiple returns for them
RankedSourceLists ==
    {search_multiple(<<[raised |-> FALSE, results |-> raw]>>).value : raw \in SourceLists}

\* synthesize_response is entered after a search that followed the fallback analysis and
\* returned one of the lists `ranked`
SynthesisEntered(ranked) ==
    /\ pc = "SEARCHED"
    /\ query \in Queries
    /\ llmReply = None
    /\ analysis = Some(create_fall_back_analysis(query))
    /\ search_terms = derive_search_terms(Get(analysis), query)
    /\ taskState = <<>>
    /\ taskOutcome = <<>>
    /\ taskResult = <<>>
    /\ completionOrder = <<>>
    /\ \E list \in ranked :
          /\ ranked_results = Some(list)
          /\ web_results = Some(WebSearchResults(convert_raw_results_to_schema(list),
                                                 search_terms))
    /\ processed_sources = <<>>
    /\ genOutcome = None
    /\ genCalls = 0
    /\ synthesized = None
    /\ response = None
    /\ stageLog = Returned(4)
    /\ calls = <<<<"intent", query>>>> \o search_calls(search_terms)
    /\ NoChunking

SourceInit == SynthesisEntered(RankedSourceLists)

SourceNext ==
    \/ StartSynthesis
    \/ GenerationReturns
    \/ AssembleResponse

SourceSpec == SourceInit /\ [][SourceNext]_vars

\* _process_search_results has run
SourcesPrepared == pc \in {"GENERATING", "SYNTHESIZED", "DONE"}

\* the ranked evidence handed to synthesize_response
Ranked == Get(web_results).results

\* the length of the cleaned content of the result of rank i
CleanedLength(i) == SumLen(clean_content(Ranked[i].content))

(* C25: the sources are made of the first 8 ranked results only: a source is the result  *)
(* at the rank its id names, a rank of 8 or less; a result among the first 8 becomes a   *)
(* source exactly when its cleaned content has 10 characters or more; the content of a   *)
(* source is the cleaned content, or its first 2000 characters followed by the           *)
(* three-character ellipsis when it is longer than 2000; a generated answer has the      *)
(* number of sources as total_sources, and no answer has a total_sources above 8.        *)
SourcePreparation ==
    SourcesPrepared =>
        /\ Len(processed_sources) <= 8
        /\ \A n \in 1..Len(processed_sources) :
              LET source == processed_sources[n]
                  cleaned == clean_content(Ranked[source.id].content)
              IN  /\ source.id \in 1..Min(8, Len(Ranked))
                  /\ source.title = Ranked[source.id].title
                  /\ source.url = Ranked[source.id].url
                  /\ SumLen(cleaned) >= 10
                  /\ SumLen(cleaned) <= 2000 => source.content = cleaned
                  /\ SumLen(cleaned) > 2000 =>
                        /\ SumLen(source.content) = 2003
                        /\ SubSeq(source.content, 1, Len(source.content) - 1)
                              = take_chars(cleaned, 2000)
                        /\ source.content[Len(source.content)] = Seg("text", 3)
        /\ \A n, k \in 1..Len(processed_sources) :
              n < k => processed_sources[n].id < processed_sources[k].id
        /\ \A i \in 1..Min(8, Len(Ranked)) :
              CleanedLength(i) >= 10 => \E n \in 1..Len(processed_sources) :
                                            processed_sources[n].id = i
        /\ Generated => Get(synthesized).total_sources = Len(processed_sources)
        /\ IsSome(synthesized) => Get(synthesized).total_sources <= 8

\* ten results; the ninth and tenth have a usable content, one of the first eight is
\* too short and one is truncated; the generated answer counts seven sources
SourcePreparationWitness ==
    /\ pc = "SYNTHESIZED"
    /\ Generated
    /\ Len(Ranked) = 10
    /\ CleanedLength(9) >= 10 /\ CleanedLength(10) >= 10
    /\ \E i \in 1..8 : CleanedLength(i) = 9
    /\ \E n \in 1..Len(processed_sources) : SumLen(processed_sources[n].content) = 2003
    /\ Get(synthesized).total_sources = 7

-----------------------------------------------------------------------------
(* C26: sources_used of a generated answer lists, in the order of the sources (their    *)
(* rank order), each source whose id is referenced in the text, once, as id, title and  *)
(* url, and no other source; the order of the references in the text plays no part.      *)
CitationMapping ==
    Generated =>
        LET listed == Get(synthesized).sources_used
            ids == extract_citations(Get(synthesized).response)
            referenced == {k \in 1..Len(processed_sources) : ToStr(processed_sources[k].id) \in ids}
            \* the place among the sources of the n-th listed one
            place(n) == CHOOSE k \in 1..Len(processed_sources) :
                            processed_sources[k].id = listed[n].id
        IN  /\ Len(listed) = Cardinality(referenced)
            /\ \A n \in 1..Len(listed) :
                  /\ DOMAIN listed[n] = {"id", "title", "url"}
                  /\ place(n) \in referenced
                  /\ listed[n].title = processed_sources[place(n)].title
                  /\ listed[n].url = processed_sources[place(n)].url
            /\ \A n, m \in 1..Len(listed) : n < m => place(n) < place(m)

\* three sources; the text refers to the second and then to the first, and the first is
\* listed before the second, the third not at all
CitationMappingWitness ==
    /\ Generated
    /\ Len(processed_sources) = 3
    /\ Get(synthesized).response = JoinFragments(<<3, 1>>)
    /\ Len(Get(synthesized).sources_used) = 2
    /\ Get(synthesized).sources_used[1].id = 1
    /\ Get(synthesized).sources_used[2].id = 2

-----------------------------------------------------------------------------
(* ContentSynthesizer.synthesize_response on its own, the generation call answering     *)
(* with texts of many lengths                                                            *)

\* most words in a generated text
MaxWords == 801

\* the word counts at which the score changes, and their neighbours
QualityWordCounts == {1, 24, 25, 74, 75, 99, 100, 101, 199, 200, 300, 301, 800, MaxWords}

\* the words a text starts with: the citations [1] .. [cited], a header marker, a list
\* marker
LeadWords(cited, header, list) ==
    [i \in 1..cited |-> <<"[">> \o ToStr(i) \o <<"]">>]
    \o (IF header THEN <<<<"#", "#">>>> ELSE <<>>)
    \o (IF list THEN <<<<"-">>>> ELSE <<>>)

\* k times the word "w", each after a blank
Padding(k) == [i \in 1..2 * k |-> IF i % 2 = 1 THEN " " ELSE "w"]

RECURSIVE JoinWords(_)
JoinWords(ws) ==
    IF ws = <<>> THEN <<>>
    ELSE IF Len(ws) = 1 THEN ws[1]
    ELSE ws[1] \o <<" ">> \o JoinWords(Tail(ws))

\* the text of `words` words that starts with the lead words
QualityText(cited, header, list, words) ==
    LET lead == LeadWords(cited, header, list) IN
    IF lead = <<>> THEN Tail(Padding(words))
    ELSE JoinWords(lead) \o Padding(words - Len(lead))

QualityTexts ==
    {<<>>} \cup
    {QualityText(c[1], c[2], c[3], c[4]) :
        c \in {d \in (0..3) \X BOOLEAN \X BOOLEAN \X QualityWordCounts :
                  d[4] >= Len(LeadWords(d[1], d[2], d[3]))}}

QualityOutcomes == {[kind |-> "text", error |-> <<>>, content |-> t] : t \in QualityTexts}

\* the search returned three results with a usable content, of ranks 1 to 3
QualityInit ==
    SynthesisEntered({search_multiple(<<[raised |-> FALSE,
                                        results |-> <<Catalogue[3], Catalogue[5],
                                                LowRanked>>]>>).value})

QualityGenerationReturns == GenerationReturnsFrom(QualityOutcomes)

QualityNext ==
    \/ StartSynthesis
    \/ QualityGenerationReturns
    \/ AssembleResponse

QualitySpec == QualityInit /\ [][QualityNext]_vars

(* C27: the synthesis_quality_score of a generated answer lies between 0 and 1 and is    *)
(* the sum, capped at 1, of: 0.3 when the density citation_count / (word_count / 50) is  *)
(* between 0.5 and 2.0, bounds included, else 0.1 when the density is above 0; 0.3 for   *)
(* 200 to 800 words, else 0.2 from 100 words on; 0.1 for a header marker ("##") in the   *)
(* text; 0.1 for a list marker ("- " or "* "); 0.2 for more than 2 citations. A text of  *)
(* no word has no density term. Scores are in hundredths, and the density d satisfies    *)
(* 0.5 <= d <= 2.0 exactly when word_count <= 100 * citation_count and                   *)
(* 25 * citation_count <= word_count.                                                    *)
QualityScoreFormula ==
    Generated =>
        LET answer == Get(synthesized)
            words == answer.word_count
            cited == answer.citation_count
            good_density == words <= 100 * cited /\ 25 * cited <= words
            density_term == IF words = 0 THEN 0
                            ELSE IF good_density THEN 30
                            ELSE IF cited > 0 THEN 10 ELSE 0
            length_term == IF words >= 200 /\ words <= 800 THEN 30
                           ELSE IF words >= 100 THEN 20 ELSE 0
            header_term == IF Contains(answer.response, <<"#", "#">>) THEN 10 ELSE 0
            list_term == IF Contains(answer.response, <<"-", " ">>) \/ Contains(answer.response,
                    <<"*", " ">>)
                         THEN 10 ELSE 0
            many_term == IF cited > 2 THEN 20 ELSE 0
            total == density_term + length_term + header_term + list_term + many_term
        IN  /\ answer.synthesis_quality_score \in 0..100
            /\ answer.synthesis_quality_score = IF total > 100 THEN 100 ELSE total
            /\ words = WordCount(answer.response)
            /\ (answer.response = QualityText(1, FALSE, FALSE, 100)) =>
                  answer.synthesis_quality_score = 50
            /\ (answer.response = QualityText(1, FALSE, FALSE, 101)) =>
                  answer.synthesis_quality_score = 30
            /\ (answer.response = QualityText(1, FALSE, FALSE, 25)) =>
                  answer.synthesis_quality_score = 30
            /\ (answer.response = QualityText(1, FALSE, FALSE, 24)) =>
                  answer.synthesis_quality_score = 10
            /\ (answer.response = QualityText(0, TRUE, TRUE, 199)) =>
                  answer.synthesis_quality_score = 40
            /\ (answer.response = QualityText(3, TRUE, TRUE, MaxWords)) =>
                  answer.synthesis_quality_score = 70
            /\ (answer.response = <<>>) => answer.synthesis_quality_score = 0

\* a text of 300 words with three citations, a header and a list has the score 1.0, the
\* density being exactly 0.5
QualityScoreWitness ==
    /\ Generated
    /\ Get(synthesized).response = QualityText(3, TRUE, TRUE, 300)
    /\ Get(synthesized).word_count = 300
    /\ Get(synthesized).citation_count = 3
    /\ Get(synthesized).synthesis_quality_score = 100

\* the empty text was generated: no word, no density term, the score is 0
QualityScoreNoWordWitness ==
    /\ Generated
    /\ Get(synthesized).response = <<>>
    /\ Get(synthesized).word_count = 0
    /\ Get(synthesized).synthesis_quality_score = 0

-----------------------------------------------------------------------------
(* The loop of _chunk_page_text, step by step *)

\* the next paragraph of the page would take the running chunk over max_chunk_size
PendingDoesNotFit ==
    /\ cpc = "PARAGRAPHS"
    /\ paragraphs # <<>>
    /\ current_tokens + token_count(Head(paragraphs)) > max_chunk_size

(* C28: at a step where the next paragraph does not fit, a running chunk of              *)
(* min_chunk_size (200) tokens or more, 200 included, is saved and the new running chunk *)
(* is the overlap tail followed by the paragraph; a running chunk of fewer tokens gets   *)
(* the paragraph appended and no chunk is saved.                                         *)
ClosingRuleFromMin ==
    [][PendingDoesNotFit =>
          IF current_tokens >= min_chunk_size
          THEN /\ Len(chunks') = Len(chunks) + 1
               /\ chunks'[Len(chunks')].content = strip_text(current_chunk)
               /\ chunks'[Len(chunks')].token_count = current_tokens
               /\ current_chunk' = append_paragraph(get_overlap_text(current_chunk),
                                                    Head(paragraphs))
          ELSE /\ chunks' = chunks
               /\ current_chunk' = append_paragraph(current_chunk, Head(paragraphs))]_vars

-----------------------------------------------------------------------------
(* The overlap of _get_overlap_text *)

\* the words of o are the last words of t, in the same sentences
IsWordSuffix(o, t) ==
    \/ o = <<>>
    \/ /\ Len(o) <= Len(t)
       /\ LET at == Len(t) - Len(o) + 1 IN
          /\ SubSeq(t, at + 1, Len(t)) = Tail(o)
          /\ o[1].k = t[at].k
          /\ o[1].n <= t[at].n
          /\ o[1].k = "blob" => o[1].n = t[at].n

(* C29: the overlap taken from a saved chunk is made of the last two pieces of the       *)
(* chunk split at ". " (the only piece when there is one): it is these pieces as they    *)
(* are when they have at most overlap_size (200) tokens, and else their last words,      *)
(* possibly none, joined by blanks; it never has more than overlap_size tokens; and the  *)
(* chunk that follows a closed chunk on its page, like the running chunk after the last  *)
(* closed one, starts with it. The trimming loop pops a word at every turn and stops at  *)
(* the latest with no word left.                                                         *)
OverlapWithinSize ==
    /\ \A i \in 1..Len(chunks) :
          LET before == chunks[i].content
              overlap == get_overlap_text(before)
              tail == last_sentences(before)
          IN  /\ token_count(overlap) <= overlap_size
              /\ token_count(tail) <= overlap_size => overlap = tail
              /\ token_count(tail) > overlap_size => IsWordSuffix(overlap, join_words(tail))
              /\ i < Len(chunks) => StartsWithOverlap(chunks[i + 1].content, before)
    /\ (cpc = "PARAGRAPHS" /\ chunks # <<>>)
          => StartsWithOverlap(current_chunk, chunks[Len(chunks)].content)

\* a page gave three chunks: the first is one long word and leaves an empty overlap, the
\* second leaves the last 99 words of a sentence and the 100 words of the next one, with
\* which the third chunk starts
OverlapWitness ==
    /\ PageDone
    /\ Len(chunks) = 3
    /\ token_count(last_sentences(chunks[1].content)) > overlap_size
    /\ get_overlap_text(chunks[1].content) = <<>>
    /\ get_overlap_text(chunks[2].content) = <<Seg("w", 99), Dot, Seg("w", 100)>>
    /\ SubSeq(chunks[3].content, 1, 3) = <<Seg("w", 99), Dot, Seg("w", 100)>>

-----------------------------------------------------------------------------
(* SearchOrchestrator._execute_web_search on its own: the intent analysis has returned   *)
(* an analysis of any complexity with any of a family of suggestion lists.               *)

\* capital I with dot above, which str.lower() turns into two characters
DottedCapitalI == Chr(304)

SuggestionLists ==
    {<<>>, <<<<>>>>, <<<<"w", "h", "a", "t", " ", "i", "s", " ", "A", "I", "?">>>>, <<<<"M",
            "L">>>>, <<<<"M", "L">>, <<"A", "I", " ", "u", "s", "e">>>>,
     <<<<"M", "L">>, <<"A", "I", " ", "u", "s", "e">>, <<"A", "I", " ", "r", "i", "s", "k">>>>,
     <<<<"M", "L">>, <<"A", "I", " ", "u", "s", "e">>, <<"A", "I", " ", "r", "i", "s", "k">>,
             <<"W", "H", "A", "T", " ", "I", "S", " ", "A", "I", "?">>>>,
     <<<<"M", "L">>, <<"A", "I", " ", "u", "s", "e">>, <<"A", "I", " ", "r", "i", "s", "k">>,
             <<"A", "I", " ", "l", "a", "w">>, <<"A", "I", " ", "a", "r", "t">>>>,
     <<<<"M", "L">>, <<"W", "H", "A", "T", " ", "I", "S", " ",
             "A">> \o <<DottedCapitalI>> \o <<"?">>>>}

\* the JSON objects of the intent model with these suggestions and a complexity_score
\* from below the accepted range to above it
TermReplies ==
    {[kind |-> "json_object", data |-> AnalysisData(RequiredFields, suggested, complexity)] :
        suggested \in SuggestionLists, complexity \in MinComplexity - 1..MaxComplexity + 1}

TermInit ==
    /\ pc = "INTENT_ANALYZED"
    /\ query \in Queries
    /\ \E reply \in TermReplies :
          /\ llmReply = Some(reply)
          /\ analysis = Some(analyze_query(query, reply))
    /\ search_terms = <<>>
    /\ taskState = <<>>
    /\ taskOutcome = <<>>
    /\ taskResult = <<>>
    /\ completionOrder = <<>>
    /\ ranked_results = None
    /\ web_results = None
    /\ processed_sources = <<>>
    /\ genOutcome = None
    /\ genCalls = 0
    /\ synthesized = None
    /\ response = None
    /\ stageLog = Returned(2)
    /\ calls = <<<<"intent", query>>>>
    /\ NoChunking

TermNext == LaunchSearches

TermSpec == TermInit /\ [][TermNext]_vars

(* C30: whatever the analysis (a complexity_score from 1 to 10, suggestions or none),    *)
(* the list of search terms is not empty and has at most 3 entries, at most 2 for a      *)
(* complexity_score of 3 or less; one search call is issued per term, so between one     *)
(* and three per run.                                                                    *)
SearchTermBounds ==
    /\ IsSome(analysis) => Get(analysis).complexity_score \in 1..10
    /\ TermsDerived =>
          /\ Len(search_terms) \in 1..3
          /\ Get(analysis).complexity_score <= 3 => Len(search_terms) <= 2
          /\ Len(SelectSeq(calls, IsSearchCall)) = Len(search_terms)
          /\ Len(taskState) \in {0, Len(search_terms)}

\* an analysis of complexity 10 without suggestions: the query is the one term searched
SearchTermBoundsWitness ==
    /\ pc = "SEARCHING"
    /\ Get(analysis).suggested_searches = <<>>
    /\ Get(analysis).complexity_score = 10
    /\ search_terms = <<query>>
    /\ Len(SelectSeq(calls, IsSearchCall)) = 1
====
